---- MODULE Spec2Model ----
(***************************************************************************)
(* A model of the Fith template renderer: the tree-walking runtime with    *)
(* its composition engine (include / extends / block), the compiler with   *)
(* its compilation cache, and the optimizer.                               *)
(***************************************************************************)
EXTENDS Integers, Sequences, FiniteSets, TLC

VARIABLES
    scn,              \* the input of the run: templates, data, entry point
    templates,        \* the loader's contents: slug -> template (node list)
    status,           \* position of the render: init, extends, running, done, overflow
    stack,            \* the call stack of the tree walk, innermost frame last
    output,           \* Runtime.output, a sequence of written chunks
    err,              \* the error being returned, NoErr when none
    includeStack,     \* CompositionRuntime.includeStack
    maxIncludeDepth,  \* CompositionRuntime.maxIncludeDepth
    blocks,           \* CompositionRuntime.blocks: block name -> body
    ctxHeap,          \* the Context objects allocated so far
    ctx,              \* Runtime.context: index of the current Context in ctxHeap
    extTmpl,          \* executeWithExtends: the template whose parent is being resolved
    extDepth,         \* executeWithExtends: depth of its recursion
    result,           \* what the entry point returned: output text and error
    cache,            \* CompilationCache.templates: cache key -> artifact
    mu,               \* CompilationCache.mu: readers count and writer flag
    procs,            \* the callers of the compiler: position and locals of each
    calls,            \* number of compiler calls begun so far
    nextId,           \* identity of the next CompiledTemplate allocated
    returned,         \* what the compiler call that returned last returned
    lastOK,           \* history: slug -> artifact the last Compile of the slug
                      \* stored, since the cache was last cleared, and whether
                      \* that Compile came after a clear of the slug
    wiped,            \* history: slugs whose artifact a ClearCache removed and
                      \* no Compile has stored again
    produced,         \* history: every <<slug, artifact>> a Compile has built
    cleared           \* history: the artifacts with a smaller id were built
                      \* before the call of a ClearCache that has returned

rvars == <<status, stack, output, err, includeStack, maxIncludeDepth, blocks,
           ctxHeap, ctx, extTmpl, extDepth, result>>
cvars == <<cache, mu, procs, calls, nextId, returned, lastOK, wiped, produced, cleared>>
vars == <<scn, templates, rvars, cvars>>

-----------------------------------------------------------------------------
(* Bounds.                                                                 *)

\* The recursion depth at which the goroutine stack is exhausted.
StackLimit == 5

\* The number of templates the loader holds.
NumSlugs == 3

\* The largest include depth limit a runtime is given.
MaxDepth == 3

\* The number of goroutines that call the compiler.
NumProcs == 2

\* The number of compiler calls made in a run.
MaxCalls == 4

-----------------------------------------------------------------------------
(* Values: the dynamically typed data a Context yields.                    *)

Nil == [t |-> "nil"]
BoolV(b) == [t |-> "bool", v |-> b]
IntV(i) == [t |-> "int", v |-> i]
StrV(s) == [t |-> "str", v |-> s]
SeqV(s) == [t |-> "seq", v |-> s]
MapV(m) == [t |-> "map", v |-> m]
RecV(m) == [t |-> "rec", v |-> m]

\* A float64 is the fraction n/d in lowest terms with d > 0; NaN, +Inf and
\* -Inf are 0/0, 1/0 and -1/0. Rounding is left out: the fractions of the
\* model are exact in float64.
Abs(i) == IF i < 0 THEN -i ELSE i
RECURSIVE Gcd(_, _)
Gcd(a, b) == IF b = 0 THEN a ELSE Gcd(b, a % b)
Sign(i) == IF i > 0 THEN 1 ELSE IF i < 0 THEN -1 ELSE 0
Frac(n, d) ==
    IF d = 0 THEN <<Sign(n), 0>>
    ELSE LET g == Gcd(Abs(n), Abs(d)) IN <<Sign(d) * (n \div g), Abs(d) \div g>>
FloatV(n, d) == [t |-> "float", v |-> Frac(n, d)]
NaN == FloatV(0, 0)
PosInf == FloatV(1, 0)
NegInf == FloatV(-1, 0)
EmptyMap == [k \in {} |-> Nil]

NoErr == [kind |-> "none", arg |-> ""]
Err(k, a) == [kind |-> k, arg |-> a]
\* fmt.Errorf with %w: an error that wraps its cause.
Wrap(k, a, cause) == [kind |-> k, arg |-> a, cause |-> cause]
Ok(v) == [val |-> v, err |-> NoErr]
Fail(e) == [val |-> Nil, err |-> e]

-----------------------------------------------------------------------------
(* AST nodes.                                                              *)

NoNode == [kind |-> "nil"]
Text(s) == [kind |-> "Text", Value |-> s]
Variable(path) == [kind |-> "Variable", Path |-> path]
Literal(v) == [kind |-> "Literal", Value |-> v]
Call(f, args) == [kind |-> "Call", Function |-> f, Args |-> args]
If(c, th, el) == [kind |-> "If", Condition |-> c, Then |-> th, Else |-> el]
Range(c, body) == [kind |-> "Range", Collection |-> c, Body |-> body]
Include(t) == [kind |-> "Include", Template |-> t, Params |-> EmptyMap, Context |-> NoNode]
IncludeCtx(t, c) == [kind |-> "Include", Template |-> t, Params |-> EmptyMap, Context |-> c]
IncludeParams(t, p) == [kind |-> "Include", Template |-> t, Params |-> p, Context |-> NoNode]
Extends(t) == [kind |-> "Extends", Template |-> t]
Block(n, body) == [kind |-> "Block", Name |-> n, Body |-> body]
BinaryOp(op, l, r) == [kind |-> "BinaryOp", Operator |-> op, Left |-> l, Right |-> r]
UnaryOp(op, x) == [kind |-> "UnaryOp", Operator |-> op, Operand |-> x]
Index(obj, idx) == [kind |-> "Index", Object |-> obj, Index |-> idx]
Pipe(v, filters) == [kind |-> "Pipe", Value |-> v, Filters |-> filters]

-----------------------------------------------------------------------------
(* Context: root data and a stack of scopes.                               *)

NewContext(data) == [data |-> data, scopes |-> <<>>]

\* getField: a field of a struct or a key of a map; nil for anything else.
getField(obj, field) ==
    IF obj.t \in {"map", "rec"} /\ field \in DOMAIN obj.v THEN obj.v[field] ELSE Nil

\* The innermost scope that binds name, 0 when none does.
RECURSIVE ScopeOf(_, _, _)
ScopeOf(scopes, name, i) ==
    IF i = 0 THEN 0
    ELSE IF name \in DOMAIN scopes[i] THEN i
    ELSE ScopeOf(scopes, name, i - 1)

RECURSIVE Traverse(_, _, _)
Traverse(current, path, i) ==
    IF i > Len(path) THEN Ok(current)
    ELSE LET next == getField(current, path[i])
         IN  IF next = Nil THEN Fail(Err("nil value at path", path[i]))
             ELSE Traverse(next, path, i + 1)

\* Context.Get
Get(c, path) ==
    IF Len(path) = 0 THEN Fail(Err("empty path", ""))
    ELSE LET s == ScopeOf(c.scopes, path[1], Len(c.scopes))
         IN  IF path[1] = "."
             THEN Traverse(IF s > 0 THEN c.scopes[s]["."] ELSE c.data, path, 2)
             ELSE IF s = 0 THEN Fail(Err("variable not found", path[1]))
             ELSE Traverse(c.scopes[s][path[1]], path, 2)

\* Context.PushScope
PushScope(c) == [c EXCEPT !.scopes = Append(@, EmptyMap)]

PopScope_NoPop(c) == c

\* Context.PopScope
PopScope(c) ==
    IF Len(c.scopes) > 0
    THEN [c EXCEPT !.scopes = SubSeq(@, 1, Len(@) - 1)]
    ELSE c

\* Context.Set
Set(c, name, value) ==
    LET d == IF Len(c.scopes) = 0 THEN PushScope(c) ELSE c
        n == Len(d.scopes)
    IN  [d EXCEPT !.scopes[n] =
            [k \in DOMAIN @ \cup {name} |-> IF k = name THEN value ELSE @[k]]]

\* IsTruthy
IsTruthy_StringCoercion(val) ==
    CASE val.t = "nil" -> FALSE
      [] val.t = "bool" -> val.v
      [] val.t = "int" -> val.v # 0
      [] val.t = "float" -> val.v # <<0, 1>>
      [] val.t = "str" -> val.v \notin {"", "0"}
      [] val.t = "seq" -> Len(val.v) > 0
      [] val.t = "map" -> DOMAIN val.v # {}
      [] OTHER -> TRUE

IsTruthy(val) ==
    CASE val.t = "nil" -> FALSE
      [] val.t = "bool" -> val.v
      [] val.t = "int" -> val.v # 0
      [] val.t = "float" -> val.v # <<0, 1>>
      [] val.t = "str" -> val.v # ""
      [] val.t = "seq" -> Len(val.v) > 0
      [] val.t = "map" -> DOMAIN val.v # {}
      [] OTHER -> TRUE

\* fmt.Fprint of a float64: whole numbers and halves in decimal, the other
\* fractions of the model as their numerator and denominator.
FormatFloat(f) ==
    CASE f = <<0, 0>> -> "NaN"
      [] f = <<1, 0>> -> "+Inf"
      [] f = <<-1, 0>> -> "-Inf"
      [] f[2] = 1 -> ToString(f[1])
      [] f[2] = 2 /\ f[1] > 0 -> ToString(<<f[1] \div 2, ".", 5>>)
      [] OTHER -> ToString(f)

\* fmt.Fprint of a value, as the chunks it writes.
RECURSIVE Fprint(_)
RECURSIVE FprintAll(_, _)
FprintAll(s, i) ==
    IF i > Len(s) THEN <<>> ELSE Fprint(s[i]) \o FprintAll(s, i + 1)
Fprint(val) ==
    CASE val.t = "nil" -> <<"<nil>">>
      [] val.t = "bool" -> <<IF val.v THEN "true" ELSE "false">>
      [] val.t = "int" -> <<ToString(val.v)>>
      [] val.t = "float" -> <<FormatFloat(val.v)>>
      [] val.t = "str" -> <<val.v>>
      [] val.t = "seq" -> <<"[">> \o FprintAll(val.v, 1) \o <<"]">>
      [] OTHER -> <<"map[...]">>

-----------------------------------------------------------------------------
(* Strings. A Go string is a model string; where the code looks at its     *)
(* characters it is the sequence of them.                                  *)

\* The digits and letters in byte order.
AsciiOrder ==
    <<"0", "1", "2", "3", "4", "5", "6", "7", "8", "9",
      "A", "B", "C", "D", "E", "F", "G", "H", "I", "J", "K", "L", "M",
      "N", "O", "P", "Q", "R", "S", "T", "U", "V", "W", "X", "Y", "Z",
      "a", "b", "c", "d", "e", "f", "g", "h", "i", "j", "k", "l", "m",
      "n", "o", "p", "q", "r", "s", "t", "u", "v", "w", "x", "y", "z">>

Digits == {AsciiOrder[i] : i \in 1..10}
UpperLetters == {AsciiOrder[i] : i \in 11..36}
LowerLetters == {AsciiOrder[i] : i \in 37..62}
Letters == UpperLetters \cup LowerLetters
Spaces == {" ", "\t", "\r", "\n"}

ByteRank(c) == IF \E i \in 1..62 : AsciiOrder[i] = c
               THEN CHOOSE i \in 1..62 : AsciiOrder[i] = c ELSE 0

\* The spelling of the strings of more than one character that the model
\* names.
Spell ==
    [if |-> <<"i", "f">>, else |-> <<"e", "l", "s", "e">>, end |-> <<"e", "n", "d">>,
     range |-> <<"r", "a", "n", "g", "e">>,
     include |-> <<"i", "n", "c", "l", "u", "d", "e">>,
     extends |-> <<"e", "x", "t", "e", "n", "d", "s">>,
     block |-> <<"b", "l", "o", "c", "k">>,
     true |-> <<"t", "r", "u", "e">>, false |-> <<"f", "a", "l", "s", "e">>,
     upper |-> <<"u", "p", "p", "e", "r">>, trim |-> <<"t", "r", "i", "m">>,
     Title |-> <<"T", "i", "t", "l", "e">>, Nope |-> <<"N", "o", "p", "e">>,
     Sub |-> <<"S", "u", "b">>, One |-> <<"O", "n", "e">>,
     lower |-> <<"l", "o", "w", "e", "r">>, len |-> <<"l", "e", "n">>]

\* The Go string of a sequence of characters, and the characters of a Go
\* string; a string that Spell leaves out is one opaque character.
String(chars) ==
    IF Len(chars) = 0 THEN ""
    ELSE IF Len(chars) = 1 THEN chars[1]
    ELSE IF \E w \in DOMAIN Spell : Spell[w] = chars
    THEN CHOOSE w \in DOMAIN Spell : Spell[w] = chars
    ELSE ToString(chars)

CharsOf(str) ==
    IF str = "" THEN <<>>
    ELSE IF str \in DOMAIN Spell THEN Spell[str] ELSE <<str>>

\* strconv.Atoi of a sequence of digits.
RECURSIVE Atoi(_)
Atoi(chars) ==
    IF Len(chars) = 0 THEN 0
    ELSE 10 * Atoi(SubSeq(chars, 1, Len(chars) - 1)) + (ByteRank(chars[Len(chars)]) - 1)

\* strings.ToUpper, strings.ToLower, strings.TrimSpace
ToUpper(str) ==
    String([i \in 1..Len(CharsOf(str)) |->
        LET ch == CharsOf(str)[i]
        IN  IF ch \in LowerLetters THEN AsciiOrder[ByteRank(ch) - 26] ELSE ch])

ToLower(str) ==
    String([i \in 1..Len(CharsOf(str)) |->
        LET ch == CharsOf(str)[i]
        IN  IF ch \in UpperLetters THEN AsciiOrder[ByteRank(ch) + 26] ELSE ch])

RECURSIVE TrimLeft(_)
TrimLeft(chars) ==
    IF Len(chars) > 0 /\ chars[1] \in Spaces THEN TrimLeft(Tail(chars)) ELSE chars
RECURSIVE TrimRight(_)
TrimRight(chars) ==
    IF Len(chars) > 0 /\ chars[Len(chars)] \in Spaces
    THEN TrimRight(SubSeq(chars, 1, Len(chars) - 1)) ELSE chars
TrimSpace(str) == String(TrimRight(TrimLeft(CharsOf(str))))

\* The strings a < b of Go, byte by byte.
RECURSIVE CharsLess(_, _)
CharsLess(a, b) ==
    IF Len(b) = 0 THEN FALSE
    ELSE IF Len(a) = 0 THEN TRUE
    ELSE IF a[1] = b[1] THEN CharsLess(Tail(a), Tail(b))
    ELSE ByteRank(a[1]) < ByteRank(b[1])

RECURSIVE Concat(_)
Concat(chunks) ==
    IF Len(chunks) = 0 THEN <<>> ELSE CharsOf(chunks[1]) \o Concat(Tail(chunks))

-----------------------------------------------------------------------------
(* The lexer. A source text is a sequence of characters.                   *)

\* F applied to the value of x: the value is computed once, before F looks
\* at it.
With(x, F(_)) == CHOOSE r \in {F(v) : v \in {x}} : TRUE

\* keywords, IsKeyword
keywords ==
    [if |-> "If", else |-> "Else", end |-> "End", range |-> "Range",
     include |-> "Include", extends |-> "Extends", block |-> "Block"]

IsKeyword(ident) == String(ident) \in DOMAIN keywords

\* lexer.New
NewLexer(input) == [input |-> input, pos |-> 1, line |-> 1, column |-> 1, inExpr |-> FALSE,
                    start |-> 1, startLine |-> 1, startCol |-> 1]

AtEnd(l) == l.pos > Len(l.input)

\* Lexer.peek, Lexer.peekAhead: the character n positions ahead, "" past
\* the end.
peekAhead(l, n) == IF l.pos + n > Len(l.input) THEN "" ELSE l.input[l.pos + n]
peek(l) == peekAhead(l, 0)

\* Lexer.advance
advance(l0) ==
    With(l0, LAMBDA l :
        IF AtEnd(l) THEN l
        ELSE IF l.input[l.pos] = "\n"
        THEN [l EXCEPT !.pos = @ + 1, !.line = @ + 1, !.column = 1]
        ELSE [l EXCEPT !.pos = @ + 1, !.column = @ + 1])

\* Lexer.skipWhitespace
RECURSIVE skipWhitespace(_)
skipWhitespace(l0) ==
    With(l0, LAMBDA l :
        IF peek(l) \in Spaces \ {"\n"} THEN skipWhitespace(advance(l))
        ELSE IF peek(l) = "\n"
        THEN skipWhitespace(advance([l EXCEPT !.line = @ + 1, !.column = 0]))
        ELSE l)

\* Lexer.makeToken, Lexer.errorToken
makeToken(l, typ, value) ==
    [Type |-> typ, Value |-> value, Line |-> l.startLine, Column |-> l.startCol]

Lexed(l, typ, value) == [tok |-> makeToken(l, typ, value), l |-> l, err |-> FALSE]
errorToken(l, message) == [tok |-> makeToken(l, "Error", message), l |-> l, err |-> TRUE]

\* The lexer moved on while the character is in the class.
RECURSIVE advanceWhile(_, _)
advanceWhile(l0, class) ==
    With(l0, LAMBDA l :
        IF ~AtEnd(l) /\ peek(l) \in class THEN advanceWhile(advance(l), class) ELSE l)

\* The lexer moved on to the next "{{" or to the end of the input.
RECURSIVE advanceToDelim(_)
advanceToDelim(l0) ==
    With(l0, LAMBDA l :
        IF AtEnd(l) \/ (peek(l) = "{" /\ peekAhead(l, 1) = "{") THEN l
        ELSE advanceToDelim(advance(l)))

Slice(l, from, to) == SubSeq(l.input, from, to - 1)

\* Lexer.scanText
scanText(l) ==
    With(advanceToDelim(l), LAMBDA m :
        IF m.pos > l.pos THEN Lexed(m, "Text", Slice(l, l.pos, m.pos))
        ELSE Lexed([advance(advance(l)) EXCEPT !.inExpr = TRUE], "OpenDelim", <<"{", "{">>))

\* Lexer.scanString
RECURSIVE scanStringFrom(_, _, _)
scanStringFrom(l0, start, quote) ==
    With(l0, LAMBDA l :
        IF AtEnd(l) THEN errorToken(l, "unterminated string literal")
        ELSE IF peek(l) = quote
        THEN Lexed(advance(l), "String", Slice(l, start + 1, l.pos))
        ELSE IF peek(l) = "\\" THEN scanStringFrom(advance(advance(l)), start, quote)
        ELSE IF peek(l) = "\n" THEN errorToken(l, "unterminated string literal")
        ELSE scanStringFrom(advance(l), start, quote))

scanString(l, quote) == scanStringFrom(advance(l), l.pos, quote)

\* Lexer.scanNumber
scanNumber(l) ==
    With(advanceWhile(l, Digits), LAMBDA m :
        With(IF peek(m) = "." /\ peekAhead(m, 1) \in Digits
             THEN advanceWhile(advance(m), Digits) ELSE m,
             LAMBDA n : Lexed(n, "Number", Slice(l, l.pos, n.pos))))

\* Lexer.scanIdentifier
scanIdentifier(l) ==
    With(advanceWhile(advance(l), Letters \cup Digits \cup {"_"}), LAMBDA m :
        With(Slice(l, l.pos, m.pos), LAMBDA value :
            IF IsKeyword(value) THEN Lexed(m, keywords[String(value)], value)
            ELSE Lexed(m, "Ident", value)))

\* The tokens of one character, and those of one character that "=" or
\* the character itself may follow.
SingleTokens ==
    [c \in {".", "+", "-", "*", "/", "%", ",", ":", "(", ")", "[", "]"} |->
        CASE c = "." -> "Dot" [] c = "+" -> "Plus" [] c = "-" -> "Minus"
          [] c = "*" -> "Mult" [] c = "/" -> "Div" [] c = "%" -> "Mod"
          [] c = "," -> "Comma" [] c = ":" -> "Colon" [] c = "(" -> "LParen"
          [] c = ")" -> "RParen" [] c = "[" -> "LBrack" [] c = "]" -> "RBrack"]

\* Lexer.scanExpression
scanExpression(l0) ==
    With(l0, LAMBDA l :
    LET ch == peek(l)
        one == advance(l)
        two == advance(one)
        pair(second, both, alone) ==
            IF peek(one) = second THEN Lexed(two, both, <<ch, second>>)
            ELSE Lexed(one, alone, <<ch>>)
    IN  CASE ch = "}" /\ peekAhead(l, 1) = "}" ->
                Lexed([two EXCEPT !.inExpr = FALSE], "CloseDelim", <<"}", "}">>)
          [] ch \in DOMAIN SingleTokens ->
                Lexed(one, SingleTokens[ch], <<ch>>)
          [] ch = "=" -> pair("=", "Equal", "Assign")
          [] ch = "!" -> pair("=", "NotEqual", "Not")
          [] ch = "<" -> pair("=", "LessEq", "Less")
          [] ch = ">" -> pair("=", "GreaterEq", "Greater")
          [] ch = "&" -> IF peek(one) = "&" THEN Lexed(two, "And", <<"&", "&">>)
                         ELSE errorToken(one, "expected '&&', got '&'")
          [] ch = "|" -> pair("|", "Or", "Pipe")
          [] ch \in {"\"", "'"} -> scanString(l, ch)
          [] ch \in Digits -> scanNumber(l)
          [] ch \in Letters \cup {"_", "@"} -> scanIdentifier(l)
          [] OTHER -> errorToken(l, "unexpected character"))

\* Lexer.NextToken
NextToken(l0) ==
    With(IF l0.inExpr THEN skipWhitespace(l0) ELSE l0, LAMBDA l1 :
        With([l1 EXCEPT !.start = l1.pos, !.startLine = l1.line, !.startCol = l1.column],
             LAMBDA l :
            IF AtEnd(l) THEN Lexed(l, "EOF", <<>>)
            ELSE IF ~l.inExpr THEN scanText(l)
            ELSE scanExpression(l)))

\* The tokens the parser reads, one NextToken after another, a lexer error
\* as the error token that Parser.nextToken makes of it. The list ends
\* with the token that every later NextToken repeats: the EOF token, or the
\* error of a lexer that no longer moves.
RECURSIVE TokensFrom(_)
TokensFrom(l0) ==
    With(l0, LAMBDA l :
        With(NextToken(l), LAMBDA r :
            IF r.err
            THEN <<[Type |-> "Error", Value |-> r.tok.Value, Line |-> 0, Column |-> 0]>>
                 \o (IF r.l.pos = l.pos THEN <<>> ELSE TokensFrom(r.l))
            ELSE IF r.tok.Type = "EOF" THEN <<r.tok>>
            ELSE <<r.tok>> \o TokensFrom(r.l)))

Tokens(input) == TokensFrom(NewLexer(input))

\* Lexer.All: the tokens of the input up to the EOF token or to the first
\* lexer error, each with the Lexer that made it.
\* The first lexer error of the input, as NextToken returns it; err is
\* FALSE in the result when the lexer reaches EOF without an error.
RECURSIVE FirstErrorFrom(_)
FirstErrorFrom(l0) ==
    With(l0, LAMBDA l :
        With(NextToken(l), LAMBDA r :
            IF r.err \/ r.tok.Type = "EOF" THEN r ELSE FirstErrorFrom(r.l)))

FirstError(input) == FirstErrorFrom(NewLexer(input))

RECURSIVE AllFrom(_)
AllFrom(l0) ==
    With(l0, LAMBDA l :
        With(NextToken(l), LAMBDA r :
            IF r.err THEN <<>>
            ELSE IF r.tok.Type = "EOF" THEN <<r>>
            ELSE <<r>> \o AllFrom(r.l)))

All(input) == AllFrom(NewLexer(input))

-----------------------------------------------------------------------------
(* The parser, over the tokens it reads: current is the token at i, peek   *)
(* the one after it.                                                       *)

Cur(toks, i) == toks[IF i > Len(toks) THEN Len(toks) ELSE i]
Peek(toks, i) == Cur(toks, i + 1)

\* Parser.error
ParseError(toks, i, msg) ==
    [kind |-> "parser error", arg |-> msg,
     line |-> Cur(toks, i).Line, column |-> Cur(toks, i).Column]

Parsed(node, i) == [node |-> node, i |-> i, err |-> NoErr]
ParseFail(toks, i, msg) == [node |-> NoNode, i |-> i, err |-> ParseError(toks, i, msg)]
NoParse(e) == [node |-> NoNode, i |-> 0, err |-> e]
ParsedNodes(nodes, i) == [nodes |-> nodes, i |-> i, err |-> NoErr]
NodesFail(e) == [nodes |-> <<>>, i |-> 0, err |-> e]

\* Parser.isBinaryOp
isBinaryOp(t) ==
    t \in {"Plus", "Minus", "Mult", "Div", "Mod", "Equal", "NotEqual",
           "Less", "Greater", "LessEq", "GreaterEq", "And", "Or"}

RECURSIVE parseNode(_, _)
RECURSIVE parseUntil(_, _, _)
RECURSIVE parseValue(_, _)
RECURSIVE parsePrimary(_, _)
RECURSIVE parsePath(_, _, _)
RECURSIVE parseArgs(_, _, _)

\* Parser.parseText
parseText(toks, i) == Parsed(Text(String(Cur(toks, i).Value)), i + 1)

\* Parser.parseNumber: strconv.Atoi, else strconv.ParseFloat.
RECURSIVE Pow10(_)
Pow10(n) == IF n = 0 THEN 1 ELSE 10 * Pow10(n - 1)

parseNumber(toks, i) ==
    LET value == Cur(toks, i).Value
        dot == {k \in 1..Len(value) : value[k] = "."}
    IN  IF dot = {} THEN Parsed(Literal(IntV(Atoi(value))), i + 1)
        ELSE LET k == CHOOSE k \in dot : TRUE
                 digits == SubSeq(value, 1, k - 1) \o SubSeq(value, k + 1, Len(value))
             IN  Parsed(Literal(FloatV(Atoi(digits), Pow10(Len(value) - k))), i + 1)

\* Parser.parseIndex
parseIndex(toks, i, object) ==
    With(parseValue(toks, i + 1), LAMBDA index :
        IF index.err # NoErr THEN index
        ELSE IF Cur(toks, index.i).Type # "RBrack" THEN ParseFail(toks, index.i, "expected ]")
        ELSE Parsed(Index(object, index.node), index.i + 1))

\* Parser.parseVariable, the loop over the field access chain.
parsePath(toks, i0, path0) ==
    With(<<i0, path0>>, LAMBDA a :
        LET i == a[1]
            p == Append(a[2], String(Cur(toks, i).Value))
        IN  IF Cur(toks, i).Type # "Ident" THEN Parsed(Variable(a[2]), i)
            ELSE IF Cur(toks, i + 1).Type = "LBrack" THEN parseIndex(toks, i + 1, Variable(p))
            ELSE IF Cur(toks, i + 1).Type = "Dot" THEN parsePath(toks, i + 2, p)
            ELSE Parsed(Variable(p), i + 1))

\* Parser.parseVariable
parseVariable(toks, i) == parsePath(toks, i + 1, <<".">>)

\* Parser.parseFunctionCall, the loop over the arguments.
parseArgs(toks, i0, args0) ==
    With(<<i0, args0>>, LAMBDA a :
        IF Cur(toks, a[1]).Type \in {"CloseDelim", "Pipe"} THEN ParsedNodes(a[2], a[1])
        ELSE With(parsePrimary(toks, a[1]), LAMBDA arg :
                IF arg.err # NoErr THEN NodesFail(arg.err)
                ELSE parseArgs(toks,
                               IF Cur(toks, arg.i).Type = "Comma" THEN arg.i + 1 ELSE arg.i,
                               Append(a[2], arg.node))))

\* Parser.parseFunctionCall
parseFunctionCall(toks, i) ==
    With(parseArgs(toks, i + 1, <<>>), LAMBDA args :
        IF args.err # NoErr THEN NoParse(args.err)
        ELSE Parsed(Call(String(Cur(toks, i).Value), args.nodes), args.i))

\* Parser.parsePipe, the loop over the filters.
RECURSIVE parseFilters(_, _, _)
parseFilters(toks, i0, filters0) ==
    With(<<i0, filters0>>, LAMBDA a :
        LET i == a[1]
        IN  IF Cur(toks, i).Type # "Pipe" THEN [filters |-> a[2], i |-> i, err |-> NoErr]
            ELSE IF Cur(toks, i + 1).Type # "Ident"
            THEN [filters |-> <<>>, i |-> i + 1,
                  err |-> ParseError(toks, i + 1, "expected filter name after |")]
            ELSE parseFilters(toks, i + 2, Append(a[2], String(Cur(toks, i + 1).Value))))

\* Parser.parsePipe
parsePipe(toks, i, value) ==
    With(parseFilters(toks, i, <<>>), LAMBDA f :
        IF f.err # NoErr THEN NoParse(f.err)
        ELSE Parsed(Pipe(value, f.filters), f.i))

\* Parser.parseBinaryOp
parseBinaryOp(toks, i, left) ==
    With(parsePrimary(toks, i + 1), LAMBDA right :
        IF right.err # NoErr THEN right
        ELSE Parsed(BinaryOp(Cur(toks, i).Type, left, right.node), right.i))

\* Parser.parseUnaryOp
parseUnaryOp(toks, i) ==
    With(parsePrimary(toks, i + 1), LAMBDA operand :
        IF operand.err # NoErr THEN operand
        ELSE Parsed(UnaryOp(Cur(toks, i).Type, operand.node), operand.i))

\* Parser.parseGrouped
parseGrouped(toks, i) ==
    With(parseValue(toks, i + 1), LAMBDA node :
        IF node.err # NoErr THEN node
        ELSE IF Cur(toks, node.i).Type # "RParen" THEN ParseFail(toks, node.i, "expected )")
        ELSE Parsed(node.node, node.i + 1))

\* Parser.parsePrimary
parsePrimary(toks, i0) ==
    With(i0, LAMBDA i :
        LET t == Cur(toks, i).Type
        IN  CASE t = "Dot" -> parseVariable(toks, i)
              [] t = "Ident" -> parseFunctionCall(toks, i)
              [] t = "String" -> Parsed(Literal(StrV(String(Cur(toks, i).Value))), i + 1)
              [] t = "Number" -> parseNumber(toks, i)
              [] t = "Not" -> parseUnaryOp(toks, i)
              [] t = "LParen" -> parseGrouped(toks, i)
              [] OTHER -> ParseFail(toks, i, "unexpected token in expression"))

\* Parser.parseValue
parseValue(toks, i) ==
    With(parsePrimary(toks, i), LAMBDA node :
        IF node.err # NoErr THEN node
        ELSE IF Cur(toks, node.i).Type = "Pipe" THEN parsePipe(toks, node.i, node.node)
        ELSE IF isBinaryOp(Cur(toks, node.i).Type) THEN parseBinaryOp(toks, node.i, node.node)
        ELSE node)

\* The {{end}} that closes an if, a range or a block, and the node it
\* closes.
parseEnd(toks, i, node) ==
    IF Cur(toks, i).Type # "OpenDelim" \/ Peek(toks, i).Type # "End"
    THEN ParseFail(toks, i, "expected {{end}}")
    ELSE IF Cur(toks, i + 2).Type # "CloseDelim"
    THEN ParseFail(toks, i + 2, "expected }} after end")
    ELSE Parsed(node, i + 3)

\* Parser.parseIf, from the else clause on.
parseElse(toks, condition, thenBody) ==
    IF Cur(toks, thenBody.i).Type = "OpenDelim" /\ Peek(toks, thenBody.i).Type = "Else"
    THEN IF Cur(toks, thenBody.i + 2).Type # "CloseDelim"
         THEN ParseFail(toks, thenBody.i + 2, "expected }} after else")
         ELSE With(parseUntil(toks, thenBody.i + 3, {"End"}), LAMBDA elseBody :
                IF elseBody.err # NoErr THEN NoParse(elseBody.err)
                ELSE parseEnd(toks, elseBody.i,
                              If(condition.node, thenBody.nodes, elseBody.nodes)))
    ELSE parseEnd(toks, thenBody.i, If(condition.node, thenBody.nodes, <<>>))

\* Parser.parseIf
parseIf(toks, i) ==
    With(parseValue(toks, i + 1), LAMBDA condition :
        IF condition.err # NoErr THEN condition
        ELSE IF Cur(toks, condition.i).Type # "CloseDelim"
        THEN ParseFail(toks, condition.i, "expected }} after if condition")
        ELSE With(parseUntil(toks, condition.i + 1, {"Else", "End"}), LAMBDA thenBody :
                IF thenBody.err # NoErr THEN NoParse(thenBody.err)
                ELSE parseElse(toks, condition, thenBody)))

\* Parser.parseRange
parseRange(toks, i) ==
    With(parseValue(toks, i + 1), LAMBDA collection :
        IF collection.err # NoErr THEN collection
        ELSE IF Cur(toks, collection.i).Type # "CloseDelim"
        THEN ParseFail(toks, collection.i, "expected }} after range")
        ELSE With(parseUntil(toks, collection.i + 1, {"End"}), LAMBDA body :
                IF body.err # NoErr THEN NoParse(body.err)
                ELSE parseEnd(toks, body.i, Range(collection.node, body.nodes))))

\* Parser.parseInclude, the loop over the named parameters up to the
\* context expression.
RECURSIVE parseParams(_, _, _)
parseParams(toks, i0, params0) ==
    With(<<i0, params0>>, LAMBDA a :
        LET i == a[1]
            params == a[2]
            paramName == String(Cur(toks, i).Value)
        IN  IF Cur(toks, i).Type \in {"CloseDelim", "EOF"}
            THEN [params |-> params, context |-> NoNode, i |-> i, err |-> NoErr]
            ELSE IF Cur(toks, i).Type = "Ident" /\ Peek(toks, i).Type = "Assign"
            THEN With(parsePrimary(toks, i + 2), LAMBDA valueExpr :
                    IF valueExpr.err # NoErr
                    THEN [params |-> params, context |-> NoNode, i |-> i,
                          err |-> valueExpr.err]
                    ELSE parseParams(toks, valueExpr.i,
                            [k \in DOMAIN params \cup {paramName} |->
                                IF k = paramName THEN valueExpr.node ELSE params[k]]))
            ELSE With(parseValue(toks, i), LAMBDA ctxExpr :
                    [params |-> params, context |-> ctxExpr.node, i |-> ctxExpr.i,
                     err |-> ctxExpr.err]))

\* Parser.parseInclude
parseInclude(toks, i) ==
    IF Cur(toks, i + 1).Type # "String"
    THEN ParseFail(toks, i + 1, "expected template name after include")
    ELSE With(parseParams(toks, i + 2, EmptyMap), LAMBDA p :
            IF p.err # NoErr THEN NoParse(p.err)
            ELSE IF Cur(toks, p.i).Type # "CloseDelim"
            THEN ParseFail(toks, p.i, "expected }} after include")
            ELSE Parsed([kind |-> "Include", Template |-> String(Cur(toks, i + 1).Value),
                         Params |-> p.params, Context |-> p.context], p.i + 1))

\* Parser.parseExtends
parseExtends(toks, i) ==
    IF Cur(toks, i + 1).Type # "String"
    THEN ParseFail(toks, i + 1, "expected template name after extends")
    ELSE IF Cur(toks, i + 2).Type # "CloseDelim"
    THEN ParseFail(toks, i + 2, "expected }} after extends")
    ELSE Parsed(Extends(String(Cur(toks, i + 1).Value)), i + 3)

\* Parser.parseBlock
parseBlock(toks, i) ==
    IF Cur(toks, i + 1).Type # "String" THEN ParseFail(toks, i + 1, "expected block name")
    ELSE IF Cur(toks, i + 2).Type # "CloseDelim"
    THEN ParseFail(toks, i + 2, "expected }} after block name")
    ELSE With(parseUntil(toks, i + 3, {"End"}), LAMBDA body :
            IF body.err # NoErr THEN NoParse(body.err)
            ELSE parseEnd(toks, body.i, Block(String(Cur(toks, i + 1).Value), body.nodes)))

\* Parser.parseExpression
parseExpression(toks, i) ==
    LET t == Cur(toks, i + 1).Type
    IN  CASE t = "If" -> parseIf(toks, i + 1)
          [] t = "Range" -> parseRange(toks, i + 1)
          [] t = "Include" -> parseInclude(toks, i + 1)
          [] t = "Extends" -> parseExtends(toks, i + 1)
          [] t = "Block" -> parseBlock(toks, i + 1)
          [] t = "End" -> ParseFail(toks, i + 1, "unexpected 'end' token")
          [] t = "Else" -> ParseFail(toks, i + 1, "unexpected 'else' token")
          [] OTHER ->
                With(parseValue(toks, i + 1), LAMBDA node :
                    IF node.err # NoErr THEN node
                    ELSE IF Cur(toks, node.i).Type # "CloseDelim"
                    THEN ParseFail(toks, node.i, "expected }}")
                    ELSE Parsed(node.node, node.i + 1))

\* Parser.parseNode
parseNode(toks, i0) ==
    With(i0, LAMBDA i :
        CASE Cur(toks, i).Type = "Text" -> parseText(toks, i)
          [] Cur(toks, i).Type = "OpenDelim" -> parseExpression(toks, i)
          [] OTHER -> ParseFail(toks, i, "unexpected token"))

\* Parser.parseUntil
parseUntil(toks, i0, stopTokens) ==
    With(i0, LAMBDA i :
        IF Cur(toks, i).Type = "EOF" THEN ParsedNodes(<<>>, i)
        ELSE IF Cur(toks, i).Type = "OpenDelim" /\ Peek(toks, i).Type \in stopTokens
        THEN ParsedNodes(<<>>, i)
        ELSE With(parseNode(toks, i), LAMBDA node :
                IF node.err # NoErr THEN NodesFail(node.err)
                ELSE With(parseUntil(toks, node.i, stopTokens), LAMBDA rest :
                        IF rest.err # NoErr THEN rest
                        ELSE ParsedNodes(<<node.node>> \o rest.nodes, rest.i))))

\* Parser.Parse
Parse(toks0) ==
    With(toks0, LAMBDA toks :
        With(parseUntil(toks, 1, {}), LAMBDA r : [tmpl |-> r.nodes, err |-> r.err]))

\* Engine.parseString, and what a loader does with the text of a file.
parseString(source) == Parse(Tokens(source))

-----------------------------------------------------------------------------
(* The loader.                                                             *)

\* Loader.Exists
Exists(slug) == slug \in DOMAIN templates

\* Loader.Load
Load(slug) ==
    IF Exists(slug) THEN [tmpl |-> templates[slug], err |-> NoErr]
    ELSE [tmpl |-> <<>>, err |-> Err("template not found", slug)]

-----------------------------------------------------------------------------
(* Expression evaluation.                                                  *)

\* toFloat, toInt
toFloat(val) ==
    CASE val.t = "int" -> [v |-> <<val.v, 1>>, ok |-> TRUE]
      [] val.t = "float" -> [v |-> val.v, ok |-> TRUE]
      [] OTHER -> [v |-> <<0, 1>>, ok |-> FALSE]

toInt(val) == IF val.t = "int" THEN [v |-> val.v, ok |-> TRUE] ELSE [v |-> 0, ok |-> FALSE]

\* float64 +, -, *, / and <
IsInf(f) == f[2] = 0 /\ f[1] # 0
FAdd(a, b) ==
    IF IsInf(a) /\ IsInf(b) THEN (IF a = b THEN a ELSE <<0, 0>>)
    ELSE Frac(a[1] * b[2] + b[1] * a[2], a[2] * b[2])
FNeg(a) == <<-a[1], a[2]>>
FSub(a, b) == FAdd(a, FNeg(b))
FMul(a, b) == Frac(a[1] * b[1], a[2] * b[2])
FDiv(a, b) ==
    IF b = <<0, 1>> THEN Frac(a[1], 0)
    ELSE IF IsInf(b) THEN (IF a[2] = 0 THEN <<0, 0>> ELSE <<0, 1>>)
    ELSE Frac(a[1] * b[2] * Sign(b[1]), a[2] * Abs(b[1]))
FLess(a, b) ==
    IF a = <<-1, 0>> /\ b = <<1, 0>> THEN TRUE
    ELSE a[1] * b[2] < b[1] * a[2]

\* The % of Go on int: the remainder has the sign of the dividend.
GoMod(a, b) == Sign(a) * (Abs(a) % Abs(b))

TypeNames(a, b) == ToString(<<a.t, b.t>>)

\* addValues, subtractValues, multiplyValues
addValues(a, b) ==
    IF toFloat(a).ok /\ toFloat(b).ok
    THEN IF toInt(a).ok /\ toInt(b).ok THEN Ok(IntV(a.v + b.v))
         ELSE Ok([t |-> "float", v |-> FAdd(toFloat(a).v, toFloat(b).v)])
    ELSE Fail(Err("cannot add", TypeNames(a, b)))

subtractValues(a, b) ==
    IF toFloat(a).ok /\ toFloat(b).ok
    THEN IF toInt(a).ok /\ toInt(b).ok THEN Ok(IntV(a.v - b.v))
         ELSE Ok([t |-> "float", v |-> FSub(toFloat(a).v, toFloat(b).v)])
    ELSE Fail(Err("cannot subtract", TypeNames(a, b)))

multiplyValues(a, b) ==
    IF toFloat(a).ok /\ toFloat(b).ok
    THEN IF toInt(a).ok /\ toInt(b).ok THEN Ok(IntV(a.v * b.v))
         ELSE Ok([t |-> "float", v |-> FMul(toFloat(a).v, toFloat(b).v)])
    ELSE Fail(Err("cannot multiply", TypeNames(a, b)))

divideValues_NoZeroCheck(a, b) ==
    IF toFloat(a).ok /\ toFloat(b).ok
    THEN Ok([t |-> "float", v |-> FDiv(toFloat(a).v, toFloat(b).v)])
    ELSE Fail(Err("cannot divide", TypeNames(a, b)))

\* divideValues
divideValues(a, b) ==
    IF toFloat(a).ok /\ toFloat(b).ok
    THEN IF toFloat(b).v = <<0, 1>> THEN Fail(Err("division by zero", ""))
         ELSE Ok([t |-> "float", v |-> FDiv(toFloat(a).v, toFloat(b).v)])
    ELSE Fail(Err("cannot divide", TypeNames(a, b)))

\* modValues
modValues(a, b) ==
    IF toInt(a).ok /\ toInt(b).ok
    THEN IF b.v = 0 THEN Fail(Err("modulo by zero", ""))
         ELSE Ok(IntV(GoMod(a.v, b.v)))
    ELSE Fail(Err("cannot mod", TypeNames(a, b)))

\* negateValue
negateValue(val) ==
    IF toFloat(val).ok
    THEN IF toInt(val).ok THEN Ok(IntV(-val.v))
         ELSE Ok([t |-> "float", v |-> FNeg(val.v)])
    ELSE Fail(Err("cannot negate", val.t))

\* compareEqual, compareLess: fmt.Sprint of both sides unless both are
\* numbers.
compareEqual(a, b) == Concat(Fprint(a)) = Concat(Fprint(b))

compareLess(a, b) ==
    IF toFloat(a).ok /\ toFloat(b).ok THEN FLess(toFloat(a).v, toFloat(b).v)
    ELSE CharsLess(Concat(Fprint(a)), Concat(Fprint(b)))

\* tryComparisonOp, tryLogicalOp, tryArithmeticOp
ComparisonOps == {"Equal", "NotEqual", "Less", "Greater", "LessEq", "GreaterEq"}
tryComparisonOp(op, left, right) ==
    CASE op = "Equal" -> compareEqual(left, right)
      [] op = "NotEqual" -> ~compareEqual(left, right)
      [] op = "Less" -> compareLess(left, right)
      [] op = "Greater" -> compareLess(right, left)
      [] op = "LessEq" -> ~compareLess(right, left)
      [] op = "GreaterEq" -> ~compareLess(left, right)

tryLogicalOp(op, left, right) ==
    IF op = "And" THEN IsTruthy(left) /\ IsTruthy(right)
    ELSE IsTruthy(left) \/ IsTruthy(right)

tryArithmeticOp(op, left, right) ==
    CASE op = "Plus" -> addValues(left, right)
      [] op = "Minus" -> subtractValues(left, right)
      [] op = "Mult" -> multiplyValues(left, right)
      [] op = "Div" -> divideValues(left, right)
      [] op = "Mod" -> modValues(left, right)
      [] OTHER -> Fail(Err("unsupported operator", op))

\* Runtime.applyBinaryOperator
applyBinaryOperator(op, left, right) ==
    IF op \in ComparisonOps THEN Ok(BoolV(tryComparisonOp(op, left, right)))
    ELSE IF op \in {"And", "Or"} THEN Ok(BoolV(tryLogicalOp(op, left, right)))
    ELSE tryArithmeticOp(op, left, right)

\* Context.GetIndex
GetIndex(obj, index) ==
    CASE obj.t = "nil" -> Fail(Err("cannot index nil value", ""))
      [] obj.t = "seq" ->
            IF index.t # "int" THEN Fail(Err("array/slice index must be integer", index.t))
            ELSE IF index.v < 0 \/ index.v >= Len(obj.v)
            THEN Fail(Err("index out of bounds", ToString(index.v)))
            ELSE Ok(obj.v[index.v + 1])
      [] obj.t = "map" ->
            IF index.t = "str" /\ index.v \in DOMAIN obj.v THEN Ok(obj.v[index.v]) ELSE Ok(Nil)
      [] OTHER -> Fail(Err("cannot index type", obj.t))

\* ToSlice
ToSlice(val) == IF val.t = "seq" THEN [items |-> val.v, ok |-> TRUE]
                ELSE [items |-> <<>>, ok |-> FALSE]

\* registerBuiltins: the names of the built-in functions.
Builtins ==
    {"upper", "lower", "title", "trim", "trimPrefix", "trimSuffix", "truncate",
     "replace", "join", "len", "first", "last", "default", "urlEncode",
     "htmlEscape", "date"}

ArgCount(name, n, args) ==
    Fail(Err(name, ToString(<<"expected", n, "got", Len(args)>>)))

\* fnUpper, fnLower, fnTrim
StringFn(name, args) ==
    IF Len(args) # 1 THEN ArgCount(name, 1, args)
    ELSE IF args[1].t # "str" THEN Fail(Err(name, "argument must be a string"))
    ELSE Ok(StrV(CASE name = "upper" -> ToUpper(args[1].v)
                   [] name = "lower" -> ToLower(args[1].v)
                   [] name = "trim" -> TrimSpace(args[1].v)))

\* fnLen
fnLen(args) ==
    IF Len(args) # 1 THEN ArgCount("len", 1, args)
    ELSE CASE args[1].t = "seq" -> Ok(IntV(Len(args[1].v)))
           [] args[1].t = "str" -> Ok(IntV(Len(CharsOf(args[1].v))))
           [] args[1].t = "map" -> Ok(IntV(Cardinality(DOMAIN args[1].v)))
           [] OTHER -> Fail(Err("len", "argument must be a string, array, or map"))

\* fnFirst, fnLast
fnFirst(args) ==
    IF Len(args) # 1 THEN ArgCount("first", 1, args)
    ELSE IF ~ToSlice(args[1]).ok THEN Fail(Err("first", "argument must be an array or slice"))
    ELSE IF Len(args[1].v) = 0 THEN Fail(Err("first", "array is empty"))
    ELSE Ok(args[1].v[1])

fnLast(args) ==
    IF Len(args) # 1 THEN ArgCount("last", 1, args)
    ELSE IF ~ToSlice(args[1]).ok THEN Fail(Err("last", "argument must be an array or slice"))
    ELSE IF Len(args[1].v) = 0 THEN Fail(Err("last", "array is empty"))
    ELSE Ok(args[1].v[Len(args[1].v)])

\* fnDefault
fnDefault(args) ==
    IF Len(args) # 2 THEN ArgCount("default", 2, args)
    ELSE IF args[1].t \in {"nil", "str", "int", "float", "bool"} /\ ~IsTruthy(args[1])
    THEN Ok(args[2])
    ELSE IF ToSlice(args[1]).ok /\ Len(args[1].v) = 0 THEN Ok(args[2])
    ELSE Ok(args[1])

\* FunctionRegistry.Call. The built-in functions that no template of the
\* model calls are left out.
FunctionsCall(name, args) ==
    CASE name \notin Builtins -> Fail(Err("unknown function", name))
      [] name \in {"upper", "lower", "trim"} -> StringFn(name, args)
      [] name = "len" -> fnLen(args)
      [] name = "first" -> fnFirst(args)
      [] name = "last" -> fnLast(args)
      [] name = "default" -> fnDefault(args)
      [] OTHER -> Fail(Err("function left out", name))

\* A zero-argument call whose name starts with '@' reads a loop variable.
IsLoopVar(n) == Len(n.Args) = 0 /\ n.Function \in {"@index", "@first", "@last", "@key", "@slug"}

\* Runtime.evaluateExpression
RECURSIVE evaluateExpression(_, _)

\* The arguments of a call, evaluated from left to right up to the first
\* error.
RECURSIVE evaluateArgs(_, _, _)
evaluateArgs(c, args, i) ==
    IF i > Len(args) THEN [vals |-> <<>>, err |-> NoErr]
    ELSE LET r == evaluateExpression(c, args[i])
             rest == evaluateArgs(c, args, i + 1)
         IN  IF r.err # NoErr THEN [vals |-> <<>>, err |-> r.err]
             ELSE [vals |-> <<r.val>> \o rest.vals, err |-> rest.err]

\* Runtime.evaluateBinaryOp
evaluateBinaryOp(c, n) ==
    LET left == evaluateExpression(c, n.Left)
        right == evaluateExpression(c, n.Right)
    IN  IF left.err # NoErr THEN Fail(left.err)
        ELSE IF right.err # NoErr THEN Fail(right.err)
        ELSE applyBinaryOperator(n.Operator, left.val, right.val)

\* Runtime.evaluateUnaryOp
evaluateUnaryOp(c, n) ==
    LET operand == evaluateExpression(c, n.Operand)
    IN  IF operand.err # NoErr THEN Fail(operand.err)
        ELSE IF n.Operator = "Not" THEN Ok(BoolV(~IsTruthy(operand.val)))
        ELSE IF n.Operator = "Minus" THEN negateValue(operand.val)
        ELSE Fail(Err("unsupported unary operator", n.Operator))

\* Runtime.evaluateIndex
evaluateIndex(c, n) ==
    LET obj == evaluateExpression(c, n.Object)
        idx == evaluateExpression(c, n.Index)
    IN  IF obj.err # NoErr THEN Fail(obj.err)
        ELSE IF idx.err # NoErr THEN Fail(idx.err)
        ELSE GetIndex(obj.val, idx.val)

evaluateExpression(c, node) ==
    CASE node.kind = "Variable" -> Get(c, node.Path)
      [] node.kind = "Literal" -> Ok(node.Value)
      [] node.kind = "BinaryOp" -> evaluateBinaryOp(c, node)
      [] node.kind = "UnaryOp" -> evaluateUnaryOp(c, node)
      [] node.kind = "Index" -> evaluateIndex(c, node)
      [] node.kind = "Call" /\ IsLoopVar(node) -> Get(c, <<node.Function>>)
      [] node.kind = "Call" /\ ~IsLoopVar(node) ->
            LET args == evaluateArgs(c, node.Args, 1)
            IN  IF args.err # NoErr THEN Fail(args.err)
                ELSE FunctionsCall(node.Function, args.vals)
      [] OTHER -> Fail(Err("cannot evaluate node type", node.kind))


\* The orders in which reflect.MapKeys may hand out the keys of a map.
KeyOrders(m) ==
    {o \in [1..Cardinality(DOMAIN m) -> DOMAIN m] :
        \A i, j \in DOMAIN o : i # j => o[i] # o[j]}

-----------------------------------------------------------------------------
(* The call stack of the tree walk.                                        *)

Top == stack[Len(stack)]
CurCtx == ctxHeap[ctx]
Running == status = "running" /\ Len(stack) > 0
AtNode == Running /\ err = NoErr /\ Top.kind = "seq" /\ Top.i <= Len(Top.nodes)
Node == Top.nodes[Top.i]
Advance(stk) ==
    IF Len(stk) = 0 THEN stk
    ELSE IF stk[Len(stk)].kind = "seq" THEN [stk EXCEPT ![Len(stk)].i = @ + 1]
    ELSE [stk EXCEPT ![Len(stk)].idx = @ + 1]
Pop(stk) == SubSeq(stk, 1, Len(stk) - 1)

\* A frame running a node list: disp is the executeNode that dispatches its
\* nodes ("comp": CompositionRuntime.executeNode, "base": Runtime.executeNode),
\* ret is the function whose loop it is, saved that function's locals.
SeqFrame(nodes, disp, ret, saved) ==
    [kind |-> "seq", nodes |-> nodes, i |-> 1, disp |-> disp, ret |-> ret, saved |-> saved]
NoLocals == [savedCtx |-> 0]

\* A frame of executeRangeSlice / executeRangeMap: items holds the keys and
\* values to visit, idx is the loop index, entry records the Context (which
\* one, and its contents) the loop was entered with.
RangeFrame(node, items, isMap, disp, entry) ==
    [kind |-> "range", node |-> node, items |-> items, isMap |-> isMap, idx |-> 0,
     disp |-> disp, entry |-> entry]

-----------------------------------------------------------------------------
(* Composition helpers.                                                    *)

\* isWhitespace: the texts of the model that hold only blanks.
isWhitespace(s) == s \in {"", " ", "\n"}

\* findExtendsNode: the Extends node that comes first, leading blank text
\* aside; NoNode when the template does not extend.
RECURSIVE findExtendsFrom(_, _)
findExtendsFrom(nodes, i) ==
    IF i > Len(nodes) THEN NoNode
    ELSE IF nodes[i].kind = "Text"
         THEN IF isWhitespace(nodes[i].Value) THEN findExtendsFrom(nodes, i + 1) ELSE NoNode
    ELSE IF nodes[i].kind = "Extends" THEN nodes[i]
    ELSE NoNode
findExtendsNode(tmpl) == findExtendsFrom(tmpl, 1)

\* collectBlocks: the top-level Block nodes of tmpl, stored by name over b.
RECURSIVE collectBlocksFrom(_, _, _)
collectBlocksFrom(b, nodes, i) ==
    IF i > Len(nodes) THEN b
    ELSE IF nodes[i].kind = "Block"
         THEN collectBlocksFrom(
                [k \in DOMAIN b \cup {nodes[i].Name} |->
                    IF k = nodes[i].Name THEN nodes[i].Body ELSE b[k]],
                nodes, i + 1)
    ELSE collectBlocksFrom(b, nodes, i + 1)
collectBlocks(b, tmpl) == collectBlocksFrom(b, tmpl, 1)

IsCircular_NoCheck(stk, name) == FALSE

\* executeInclude, the circular check: the name is already on the stack.
IsCircular(stk, name) == \E i \in 1..Len(stk) : stk[i] = name

DepthExceeded_OffByOne(stk, max) == Len(stk) > max

\* executeInclude, the depth check.
DepthExceeded(stk, max) == Len(stk) >= max

PopInclude_NoPop(stk) == stk

\* executeInclude, the deferred pop of the include stack.
PopInclude(stk) == SubSeq(stk, 1, Len(stk) - 1)

\* createIncludeContext, the parameters that evaluate without error.
GoodParams(c, node) ==
    {k \in DOMAIN node.Params : evaluateExpression(c, node.Params[k]).err = NoErr}

\* createIncludeContext: fresh tells whether a new Context is allocated,
\* data is its root value; otherwise the current Context is passed on.
createIncludeContext(c, node) ==
    IF node.Context # NoNode
    THEN LET r == evaluateExpression(c, node.Context)
         IN  IF r.err # NoErr THEN [fresh |-> FALSE, data |-> Nil]
             ELSE [fresh |-> TRUE, data |-> r.val]
    ELSE IF DOMAIN node.Params # {}
    THEN [fresh |-> TRUE,
          data |-> MapV([k \in GoodParams(c, node) |->
                            evaluateExpression(c, node.Params[k]).val])]
    ELSE [fresh |-> FALSE, data |-> Nil]

\* The executeNode a statement hands its children to: executeIf and
\* executeRange are methods of the base Runtime, executeInclude and
\* executeBlock of the CompositionRuntime.
ChildDispatch(kind, disp) ==
    IF kind \in {"If", "Range"} THEN "base" ELSE "comp"

-----------------------------------------------------------------------------
(* The compiler: dependency resolution, optimizer, cache key.              *)

\* resolveDependencies, the walk: st carries the dependency list, the
\* visited set, the error, and the Loader.Exists and Loader.Load calls made
\* so far, in order.
RECURSIVE resolveNodes(_, _, _)
RECURSIVE resolveNodeDependencies(_, _)
RECURSIVE resolveTemplateDep(_, _)
resolveNodes(nodes, i, st) ==
    IF i > Len(nodes) \/ st.err # NoErr THEN st
    ELSE resolveNodes(nodes, i + 1, resolveNodeDependencies(nodes[i], st))

resolveNodeDependencies_TopLevel(n, st) ==
    CASE n.kind \in {"Include", "Extends"} -> resolveTemplateDep(n.Template, st)
      [] n.kind = "If" -> resolveNodes(n.Else, 1, resolveNodes(n.Then, 1, st))
      [] OTHER -> st

resolveNodeDependencies(n, st) ==
    CASE n.kind \in {"Include", "Extends"} -> resolveTemplateDep(n.Template, st)
      [] n.kind = "If" -> resolveNodes(n.Else, 1, resolveNodes(n.Then, 1, st))
      [] n.kind \in {"Range", "Block"} -> resolveNodes(n.Body, 1, st)
      [] OTHER -> st

resolveTemplateDep_SkipMissing(name, st) ==
    IF name \in st.visited THEN st
    ELSE LET st1 == [st EXCEPT !.visited = @ \cup {name},
                               !.deps = Append(@, name),
                               !.checked = Append(@, name)]
         IN  IF ~Exists(name) THEN st1
             ELSE resolveNodes(Load(name).tmpl, 1, [st1 EXCEPT !.loaded = Append(@, name)])

resolveTemplateDep(name, st) ==
    IF name \in st.visited THEN st
    ELSE LET st1 == [st EXCEPT !.visited = @ \cup {name},
                               !.deps = Append(@, name),
                               !.checked = Append(@, name)]
         IN  IF ~Exists(name)
             THEN [st1 EXCEPT !.err = Err("template not found", name)]
             ELSE resolveNodes(Load(name).tmpl, 1, [st1 EXCEPT !.loaded = Append(@, name)])

\* resolveDependencies
resolveDependencies(tmpl) ==
    resolveNodes(tmpl, 1,
        [deps |-> <<>>, visited |-> {}, err |-> NoErr, checked |-> <<>>, loaded |-> <<>>])

\* isConstantBool
isConstantBool(node) == node.kind = "Literal" /\ node.Value.t = "bool"

\* optimizeNode, optimizeIf, optimizeRange, optimizeBlock, optimizeNodes: a
\* node that is eliminated is NoNode.
RECURSIVE optimizeNode(_)
RECURSIVE optimizeNodes(_, _)
optimizeNodes(nodes, i) ==
    IF i > Len(nodes) THEN <<>>
    ELSE LET opt == optimizeNode(nodes[i])
         IN  (IF opt = NoNode THEN <<>> ELSE <<opt>>) \o optimizeNodes(nodes, i + 1)

optimizeIf_KeepElse(n) ==
    IF isConstantBool(n.Condition)
    THEN IF n.Condition.Value.v
         THEN IF Len(n.Then) = 1 THEN optimizeNode(n.Then[1])
              ELSE If(n.Condition, optimizeNodes(n.Then, 1), optimizeNodes(n.Else, 1))
         ELSE IF Len(n.Else) = 1 THEN optimizeNode(n.Else[1])
              ELSE IF Len(n.Else) > 0
              THEN If(Literal(BoolV(FALSE)), <<>>, optimizeNodes(n.Else, 1))
              ELSE NoNode
    ELSE If(n.Condition, optimizeNodes(n.Then, 1), optimizeNodes(n.Else, 1))

optimizeIf(n) ==
    IF isConstantBool(n.Condition)
    THEN IF n.Condition.Value.v
         THEN IF Len(n.Then) = 1 THEN optimizeNode(n.Then[1])
              ELSE If(n.Condition, optimizeNodes(n.Then, 1), <<>>)
         ELSE IF Len(n.Else) = 1 THEN optimizeNode(n.Else[1])
              ELSE IF Len(n.Else) > 0
              THEN If(Literal(BoolV(FALSE)), <<>>, optimizeNodes(n.Else, 1))
              ELSE NoNode
    ELSE If(n.Condition, optimizeNodes(n.Then, 1), optimizeNodes(n.Else, 1))

optimizeNode(n) ==
    CASE n.kind = "If" -> optimizeIf(n)
      [] n.kind = "Range" -> Range(n.Collection, optimizeNodes(n.Body, 1))
      [] n.kind = "Block" -> Block(n.Name, optimizeNodes(n.Body, 1))
      [] OTHER -> n

\* Optimizer.Optimize
Optimize(tmpl) == optimizeNodes(tmpl, 1)

\* hash/fnv of the slug. The model takes the coarsest hash, under which all
\* slugs collide, so that nothing rests on the hash telling slugs apart.
Fnv64a(slug) == 0

generateCacheKey_HashOnly(slug) == <<"", Fnv64a(slug)>>

\* generateCacheKey: the slug, then its hash.
generateCacheKey(slug) == <<slug, Fnv64a(slug)>>

\* The CompiledTemplate that Compile allocates; id stands for its address.
CompiledTemplate(ast, deps, key, id) ==
    [AST |-> ast, Dependencies |-> deps, CacheKey |-> key, IsOptimized |-> TRUE, id |-> id]

NoArtifact == [id |-> 0]

CacheGet_Miss(c, key) == [tmpl |-> NoArtifact, ok |-> FALSE]

\* CompilationCache.Get, the read under the lock.
CacheGet(c, key) ==
    IF key \in DOMAIN c THEN [tmpl |-> c[key], ok |-> TRUE]
    ELSE [tmpl |-> NoArtifact, ok |-> FALSE]

\* CompilationCache.Set, the write under the lock.
CacheSet(c, key, tmpl) == [k \in DOMAIN c \cup {key} |-> IF k = key THEN tmpl ELSE c[k]]

CacheClear_Keep(c) == c

\* CompilationCache.Clear, the write under the lock.
CacheClear(c) == EmptyMap

\* sync.RWMutex: any number of readers, or one writer.
NewRWMutex == [readers |-> 0, writer |-> FALSE]

CanRLock(m) == ~m.writer
RLock(m) == [m EXCEPT !.readers = @ + 1]
RUnlock(m) == [m EXCEPT !.readers = @ - 1]

CanLock_Shared(m) == ~m.writer

CanLock(m) == m.readers = 0 /\ ~m.writer
Lock(m) == [m EXCEPT !.writer = TRUE]
Unlock(m) == [m EXCEPT !.writer = FALSE]

\* A caller of the compiler: where it is (pc), the call it makes (op, slug),
\* the locals of Compile (cacheKey, cached, ok, compiled), and history:
\* the Loader.Load and Loader.Exists calls it made (loaded, checked), and
\* what had been stored and removed when it read the cache (warm, seen,
\* cold).
Procs == 1..NumProcs

IdleProc ==
    [pc |-> "idle", op |-> "none", slug |-> "", cacheKey |-> <<>>,
     cached |-> NoArtifact, ok |-> FALSE, compiled |-> NoArtifact,
     loaded |-> <<>>, checked |-> <<>>,
     warm |-> FALSE, seen |-> NoArtifact, cold |-> FALSE, mark |-> 0]

\* A call returns: the caller's locals are gone, and what it returned (ret,
\* err) is recorded together with the call's history.
ReturnOf(q, ret, e) ==
    [op |-> q.op, slug |-> q.slug, ret |-> ret, err |-> e, ok |-> q.ok,
     loaded |-> q.loaded, checked |-> q.checked,
     warm |-> q.warm, seen |-> q.seen, cold |-> q.cold]

NoReturn == ReturnOf(IdleProc, NoArtifact, NoErr)

-----------------------------------------------------------------------------
(* The render: one action per executeNode case, per loop step and per      *)
(* return.                                                                 *)

\* The entry point returns: the output with a nil error, the empty string
\* with an error. After Runtime.ExecuteTemplate the caller reads the
\* output with Runtime.Output, which returns the buffer.
Finish(out, e) ==
    /\ status' = "done"
    /\ result' = IF e = NoErr \/ scn.mode = "ExecuteTemplate"
                 THEN [out |-> out, err |-> e]
                 ELSE [out |-> <<>>, err |-> e]

\* ExecuteWithLoader: look for an Extends node, else run the nodes with the
\* composition dispatch.
ExecuteWithLoader ==
    /\ status = "init"
    /\ scn.mode = "ExecuteWithLoader"
    /\ LET root == scn.root
       IN  IF findExtendsNode(root) # NoNode
           THEN /\ status' = "extends"
                /\ extTmpl' = root
                /\ extDepth' = 1
                /\ UNCHANGED stack
           ELSE /\ status' = "running"
                /\ stack' = <<SeqFrame(root, "comp", "ExecuteWithLoader", NoLocals)>>
                /\ UNCHANGED <<extTmpl, extDepth>>
    /\ UNCHANGED <<output, err, includeStack, maxIncludeDepth, blocks, ctxHeap, ctx,
                   result, scn, templates, cvars>>

\* Engine.Render: compile the template by slug, then execute the compiled
\* AST with a base Runtime on a Context that binds @slug.
Render ==
    /\ status = "init"
    /\ scn.mode = "Render"
    /\ LET tmpl == Load(scn.slug)
           deps == resolveDependencies(tmpl.tmpl)
           key == generateCacheKey(scn.slug)
           compiled == CompiledTemplate(Optimize(tmpl.tmpl), deps.deps, key, nextId)
       IN  IF tmpl.err # NoErr \/ deps.err # NoErr
           THEN /\ err' = Err("failed to compile template",
                              IF tmpl.err # NoErr THEN scn.slug ELSE deps.err.arg)
                /\ Finish(output, err')
                /\ UNCHANGED <<stack, ctxHeap, cache, nextId>>
           ELSE /\ cache' = CacheSet(cache, key, compiled)
                /\ nextId' = nextId + 1
                /\ ctxHeap' = [ctxHeap EXCEPT ![ctx] = Set(@, "@slug", StrV(scn.slug))]
                /\ stack' = <<SeqFrame(compiled.AST, "base", "executeTemplate", NoLocals)>>
                /\ status' = "running"
                /\ UNCHANGED <<err, result>>
    /\ UNCHANGED <<output, includeStack, maxIncludeDepth, blocks, ctx, extTmpl, extDepth,
                   scn, templates, mu, procs, calls, returned, lastOK, wiped, produced, cleared>>

\* Engine.RenderString: parse the template string, then execute the AST
\* with a base Runtime.
RenderString ==
    /\ status = "init"
    /\ scn.mode = "RenderString"
    /\ LET tmpl == parseString(scn.g.text)
       IN  IF tmpl.err # NoErr
           THEN /\ err' = Wrap("failed to parse template string", "", tmpl.err)
                /\ Finish(output, err')
                /\ UNCHANGED stack
           ELSE /\ stack' = <<SeqFrame(tmpl.tmpl, "base", "execute", NoLocals)>>
                /\ status' = "running"
                /\ UNCHANGED <<err, result>>
    /\ UNCHANGED <<output, includeStack, maxIncludeDepth, blocks, ctxHeap, ctx,
                   extTmpl, extDepth, scn, templates, cvars>>

\* Execute, and Runtime.ExecuteTemplate followed by Runtime.Output: a base
\* Runtime runs the nodes of the template.
Execute ==
    /\ status = "init"
    /\ scn.mode \in {"Execute", "ExecuteTemplate"}
    /\ stack' = <<SeqFrame(scn.root, "base", scn.mode, NoLocals)>>
    /\ status' = "running"
    /\ UNCHANGED <<output, err, includeStack, maxIncludeDepth, blocks, ctxHeap, ctx,
                   extTmpl, extDepth, result, scn, templates, cvars>>

\* executeWithExtends: collect the child's blocks, load the parent, recurse
\* when the parent extends too, else run the parent's nodes.
executeWithExtends ==
    /\ status = "extends"
    /\ LET extendsNode == findExtendsNode(extTmpl)
           parent == Load(extendsNode.Template)
       IN  /\ blocks' = collectBlocks(blocks, extTmpl)
           /\ IF parent.err # NoErr
              THEN /\ err' = Err("failed to load parent template", extendsNode.Template)
                   /\ Finish(output, err')
                   /\ UNCHANGED <<stack, extTmpl, extDepth>>
              ELSE IF findExtendsNode(parent.tmpl) # NoNode
              THEN /\ IF extDepth >= StackLimit
                      THEN status' = "overflow"
                      ELSE status' = "extends"
                   /\ extTmpl' = parent.tmpl
                   /\ extDepth' = extDepth + 1
                   /\ UNCHANGED <<stack, err, result>>
              ELSE /\ status' = "running"
                   /\ stack' = <<SeqFrame(parent.tmpl, "comp", "executeWithExtends", NoLocals)>>
                   /\ UNCHANGED <<err, extTmpl, extDepth, result>>
    /\ UNCHANGED <<output, includeStack, maxIncludeDepth, ctxHeap, ctx,
                   scn, templates, cvars>>

\* executeText
executeText ==
    /\ AtNode /\ Node.kind = "Text"
    /\ output' = Append(output, Node.Value)
    /\ stack' = Advance(stack)
    /\ UNCHANGED <<status, err, includeStack, maxIncludeDepth, blocks, ctxHeap, ctx,
                   extTmpl, extDepth, result, scn, templates, cvars>>

\* executeVariable, and the expression statements of executeNode (Literal,
\* loop variable): evaluate, then print the value.
executeVariable ==
    /\ AtNode /\ Node.kind \in {"Variable", "Literal", "Call"}
    /\ LET r == evaluateExpression(CurCtx, Node)
       IN  IF r.err # NoErr
           THEN /\ err' = r.err
                /\ UNCHANGED <<output, stack>>
           ELSE /\ output' = output \o Fprint(r.val)
                /\ stack' = Advance(stack)
                /\ UNCHANGED err
    /\ UNCHANGED <<status, includeStack, maxIncludeDepth, blocks, ctxHeap, ctx,
                   extTmpl, extDepth, result, scn, templates, cvars>>

\* Runtime.executeNode, the BinaryOp, UnaryOp and Index cases: evaluate,
\* then print the value.
executeOperator ==
    /\ AtNode /\ Node.kind \in {"BinaryOp", "UnaryOp", "Index"}
    /\ LET r == evaluateExpression(CurCtx, Node)
       IN  IF r.err # NoErr
           THEN /\ err' = r.err
                /\ UNCHANGED <<output, stack>>
           ELSE /\ output' = output \o Fprint(r.val)
                /\ stack' = Advance(stack)
                /\ UNCHANGED err
    /\ UNCHANGED <<status, includeStack, maxIncludeDepth, blocks, ctxHeap, ctx,
                   extTmpl, extDepth, result, scn, templates, cvars>>

\* The filters of a pipe applied from left to right, up to the first error.
RECURSIVE applyFilters_RightToLeft(_, _, _)
applyFilters_RightToLeft(val, filters, i) ==
    IF i > Len(filters) THEN Ok(val)
    ELSE LET r == FunctionsCall(filters[Len(filters) + 1 - i], <<val>>)
         IN  IF r.err # NoErr
             THEN Fail(Wrap("filter error", filters[Len(filters) + 1 - i], r.err))
             ELSE applyFilters_RightToLeft(r.val, filters, i + 1)

RECURSIVE applyFilters(_, _, _)
applyFilters(val, filters, i) ==
    IF i > Len(filters) THEN Ok(val)
    ELSE LET r == FunctionsCall(filters[i], <<val>>)
         IN  IF r.err # NoErr THEN Fail(Wrap("filter error", filters[i], r.err))
             ELSE applyFilters(r.val, filters, i + 1)

\* executePipe
executePipe ==
    /\ AtNode /\ Node.kind = "Pipe"
    /\ LET v == evaluateExpression(CurCtx, Node.Value)
           r == applyFilters(v.val, Node.Filters, 1)
       IN  IF v.err # NoErr
           THEN /\ err' = Wrap("pipe value error", "", v.err)
                /\ UNCHANGED <<output, stack>>
           ELSE IF r.err # NoErr
           THEN /\ err' = r.err
                /\ UNCHANGED <<output, stack>>
           ELSE /\ output' = output \o Fprint(r.val)
                /\ stack' = Advance(stack)
                /\ UNCHANGED err
    /\ UNCHANGED <<status, includeStack, maxIncludeDepth, blocks, ctxHeap, ctx,
                   extTmpl, extDepth, result, scn, templates, cvars>>

\* executeIf
executeIf ==
    /\ AtNode /\ Node.kind = "If"
    /\ LET r == evaluateExpression(CurCtx, Node.Condition)
       IN  IF r.err # NoErr
           THEN /\ err' = Err("if condition error", r.err.kind)
                /\ UNCHANGED stack
           ELSE /\ stack' = Append(stack,
                        SeqFrame(IF IsTruthy(r.val) THEN Node.Then ELSE Node.Else,
                                 ChildDispatch("If", Top.disp), "executeIf", NoLocals))
                /\ UNCHANGED err
    /\ UNCHANGED <<status, output, includeStack, maxIncludeDepth, blocks, ctxHeap, ctx,
                   extTmpl, extDepth, result, scn, templates, cvars>>

\* executeRange: evaluate the collection and enter the loop over a slice or
\* over a map, whose keys come in any order.
executeRange ==
    /\ AtNode /\ Node.kind = "Range"
    /\ LET r == evaluateExpression(CurCtx, Node.Collection)
           d == ChildDispatch("Range", Top.disp)
       IN  IF r.err # NoErr
           THEN /\ err' = Err("range collection error", r.err.kind)
                /\ UNCHANGED stack
           ELSE IF ToSlice(r.val).ok
           THEN /\ stack' = Append(stack,
                        RangeFrame(Node, [i \in 1..Len(r.val.v) |-> [key |-> Nil, val |-> r.val.v[i]]],
                                   FALSE, d, <<ctx, CurCtx>>))
                /\ UNCHANGED err
           ELSE IF r.val.t = "map"
           THEN /\ \E o \in KeyOrders(r.val.v) :
                     stack' = Append(stack,
                        RangeFrame(Node, [i \in DOMAIN o |-> [key |-> StrV(o[i]), val |-> r.val.v[o[i]]]],
                                   TRUE, d, <<ctx, CurCtx>>))
                /\ UNCHANGED err
           ELSE /\ err' = Err("range error: value is not iterable", "")
                /\ UNCHANGED stack
    /\ UNCHANGED <<status, output, includeStack, maxIncludeDepth, blocks, ctxHeap, ctx,
                   extTmpl, extDepth, result, scn, templates, cvars>>

\* The scope of one iteration: "." and the loop variables.
IterScope(c, f) ==
    LET item == f.items[f.idx + 1]
        c1 == Set(PushScope(c), ".", item.val)
        c2 == IF f.isMap THEN Set(c1, "@key", item.key) ELSE c1
        c3 == Set(c2, "@index", IntV(f.idx))
        c4 == Set(c3, "@first", BoolV(f.idx = 0))
    IN  Set(c4, "@last", BoolV(f.idx = Len(f.items) - 1))

\* executeRangeSlice / executeRangeMap: begin the next iteration (push a
\* scope, bind the loop variables, run the body), or leave the loop.
executeRangeSlice ==
    /\ Running /\ err = NoErr /\ Top.kind = "range"
    /\ IF Top.idx < Len(Top.items)
       THEN /\ ctxHeap' = [ctxHeap EXCEPT ![ctx] = IterScope(@, Top)]
            /\ stack' = Append(stack, SeqFrame(Top.node.Body, Top.disp, "iteration", NoLocals))
       ELSE /\ stack' = Advance(Pop(stack))
            /\ UNCHANGED ctxHeap
    /\ UNCHANGED <<status, output, err, includeStack, maxIncludeDepth, blocks, ctx,
                   extTmpl, extDepth, result, scn, templates, cvars>>

\* executeInclude up to the loop over the included nodes.
executeInclude ==
    /\ AtNode /\ Node.kind = "Include" /\ Top.disp = "comp"
    /\ LET tmpl == Load(Node.Template)
           ic == createIncludeContext(CurCtx, Node)
       IN  IF IsCircular(includeStack, Node.Template)
           THEN /\ err' = Err("circular include detected", Node.Template)
                /\ UNCHANGED <<stack, includeStack, ctxHeap, ctx>>
           ELSE IF DepthExceeded(includeStack, maxIncludeDepth)
           THEN /\ err' = Err("maximum include depth exceeded", Node.Template)
                /\ UNCHANGED <<stack, includeStack, ctxHeap, ctx>>
           ELSE IF tmpl.err # NoErr
           THEN /\ err' = Err("failed to load include", Node.Template)
                /\ UNCHANGED <<stack, includeStack, ctxHeap, ctx>>
           ELSE /\ includeStack' = Append(includeStack, Node.Template)
                /\ IF ic.fresh
                   THEN /\ ctxHeap' = Append(ctxHeap, NewContext(ic.data))
                        /\ ctx' = Len(ctxHeap) + 1
                   ELSE UNCHANGED <<ctxHeap, ctx>>
                /\ stack' = Append(stack,
                        SeqFrame(tmpl.tmpl, "comp", "executeInclude",
                                 [savedCtx |-> ctx, entryStack |-> includeStack,
                                  entryCtx |-> CurCtx]))
                /\ UNCHANGED err
    /\ UNCHANGED <<status, output, maxIncludeDepth, blocks,
                   extTmpl, extDepth, result, scn, templates, cvars>>

BlockBody_Default(b, node) == node.Body

\* executeBlock, the body it runs: the override when the name has one, else
\* the block's default body.
BlockBody(b, node) == IF node.Name \in DOMAIN b THEN b[node.Name] ELSE node.Body

\* executeBlock
executeBlock ==
    /\ AtNode /\ Node.kind = "Block" /\ Top.disp = "comp"
    /\ stack' = Append(stack, SeqFrame(BlockBody(blocks, Node), "comp", "executeBlock", NoLocals))
    /\ UNCHANGED <<status, output, err, includeStack, maxIncludeDepth, blocks, ctxHeap, ctx,
                   extTmpl, extDepth, result, scn, templates, cvars>>

\* CompositionRuntime.executeNode on an Extends node: skipped.
executeExtends ==
    /\ AtNode /\ Node.kind = "Extends" /\ Top.disp = "comp"
    /\ stack' = Advance(stack)
    /\ UNCHANGED <<status, output, err, includeStack, maxIncludeDepth, blocks, ctxHeap, ctx,
                   extTmpl, extDepth, result, scn, templates, cvars>>

\* Runtime.executeNode, the default case: a node type it does not execute.
executeUnsupported ==
    /\ AtNode /\ Node.kind \in {"Include", "Block", "Extends"} /\ Top.disp = "base"
    /\ err' = Err("unsupported node type", Node.kind)
    /\ UNCHANGED <<status, output, stack, includeStack, maxIncludeDepth, blocks, ctxHeap, ctx,
                   extTmpl, extDepth, result, scn, templates, cvars>>

\* A function returns: its loop is over or an error is on its way up. The
\* deferred calls of executeInclude and the PopScope of a range iteration
\* run here; the caller goes on with its next node unless there is an error.
Return ==
    /\ Running
    /\ \/ Top.kind = "seq" /\ (Top.i > Len(Top.nodes) \/ err # NoErr)
       \/ Top.kind = "range" /\ err # NoErr
    /\ LET f == Top
           rest == Pop(stack)
       IN  /\ stack' = IF err = NoErr THEN Advance(rest) ELSE rest
           /\ IF f.kind = "seq" /\ f.ret = "executeInclude"
              THEN /\ includeStack' = PopInclude(includeStack)
                   /\ ctx' = f.saved.savedCtx
                   /\ UNCHANGED ctxHeap
              ELSE IF f.kind = "seq" /\ f.ret = "iteration"
              THEN /\ ctxHeap' = [ctxHeap EXCEPT ![ctx] = PopScope(@)]
                   /\ UNCHANGED <<includeStack, ctx>>
              ELSE UNCHANGED <<includeStack, ctx, ctxHeap>>
           /\ IF Len(rest) = 0
              THEN Finish(output, err)
              ELSE UNCHANGED <<status, result>>
    /\ UNCHANGED <<output, err, maxIncludeDepth, blocks,
                   extTmpl, extDepth, scn, templates, cvars>>

-----------------------------------------------------------------------------
(* The inputs of a run.                                                    *)

Slugs == {ToString(i) : i \in 1..NumSlugs}
Targets == Slugs \cup {"none", "missing"}
RootSlug == "1"

Data == MapV([Title |-> StrV("T"),
              One |-> SeqV(<<IntV(7)>>),
              Sub |-> MapV([Title |-> StrV("S")])])

\* Include graphs: template s writes its name, includes next[s] (plainly,
\* twice in a row, inside an If or inside a Range; with the current context,
\* an explicit context or parameters) and prints a variable.
IncludeOf(t, pass) ==
    CASE pass = "inherit" -> Include(t)
      [] pass = "context" -> IncludeCtx(t, Variable(<<".", "Sub">>))
      [] pass = "params" -> IncludeParams(t, [Title |-> Variable(<<".", "Title">>)])

Shaped(node, shape) ==
    CASE shape = "one" -> <<node>>
      [] shape = "two" -> <<node, node>>
      [] shape = "if" -> <<If(Literal(BoolV(TRUE)), <<node>>, <<>>)>>
      [] shape = "range" -> <<Range(Variable(<<".", "One">>), <<node>>)>>

GraphTemplate(s, g) ==
    <<Text(s)>>
    \o (IF g.next[s] = "none" THEN <<>> ELSE Shaped(IncludeOf(g.next[s], g.pass), g.shape))
    \o <<Variable(<<".", IF g.next[s] = "none" THEN g.leaf ELSE "Title">>)>>

GraphScenarios ==
    {[family |-> "graph", next |-> n, shape |-> sh, pass |-> pa, leaf |-> lf]
        : n \in [Slugs -> Targets], sh \in {"one"}, pa \in {"inherit"}, lf \in {"Title"}}
    \cup
    {[family |-> "graph", next |-> n, shape |-> sh, pass |-> pa, leaf |-> lf]
        : n \in {f \in [Slugs -> Targets] : f[RootSlug] = "2" /\ f["2"] \in {"none", "1", "2", "3"} /\ f["3"] = "none"},
          sh \in {"one", "two", "if", "range"},
          pa \in {"inherit", "context", "params"},
          lf \in {"Title", "Missing"}}

\* Loops: the root template ranges over .Items and then prints what "."
\* and a loop variable resolve to; coll picks the collection, body the
\* loop body.
Items(coll) ==
    CASE coll = "empty" -> SeqV(<<>>)
      [] coll = "one" -> SeqV(<<StrV("x")>>)
      [] coll = "two" -> SeqV(<<StrV("x"), StrV("y")>>)
      [] coll = "map" -> MapV([k1 |-> StrV("x"), k2 |-> StrV("y")])
      [] coll = "maps" -> SeqV(<<MapV([f |-> StrV("x")]), MapV(EmptyMap)>>)
      [] coll = "rows" -> SeqV(<<SeqV(<<StrV("x"), StrV("y")>>), SeqV(<<StrV("z")>>)>>)
      [] coll = "maprows" -> SeqV(<<SeqV(<<MapV([f |-> StrV("x")]), MapV(EmptyMap)>>)>>)
      [] coll = "string" -> StrV("x")

LoopBody(body) ==
    CASE body = "dot" -> <<Call("@index", <<>>), Variable(<<".">>)>>
      [] body = "key" -> <<Call("@key", <<>>), Variable(<<".">>)>>
      [] body = "field" -> <<Variable(<<".", "f">>), Text(";")>>
      [] body = "nested" -> <<Call("@index", <<>>),
                              Range(Variable(<<".">>), <<Variable(<<".">>), Call("@index", <<>>)>>),
                              Call("@index", <<>>)>>
      [] body = "nestedfail" -> <<Range(Variable(<<".">>), <<Variable(<<".", "f">>)>>)>>
      [] body = "include" -> <<Include("2")>>

RangeScenarios ==
    {[family |-> "range", coll |-> c, body |-> b, after |-> a]
        : c \in {"empty", "one", "two", "map", "maps", "rows", "maprows", "string"},
          b \in {"dot", "key", "field", "nested", "nestedfail", "include"},
          a \in {"Title", "@index"}}

RangeTemplate(s, g) ==
    IF s = RootSlug
    THEN <<Text("<"), Range(Variable(<<".", "Items">>), LoopBody(g.body)), Text(">"),
           IF g.after = "Title" THEN Variable(<<".", "Title">>) ELSE Call("@index", <<>>)>>
    ELSE <<Text(s), Variable(<<".">>)>>

\* Inheritance: template s extends parent[s] and defines the blocks
\* defs[s] (the root template in ascending or descending order of name,
\* the others in ascending order); a template without
\* parent is a layout that declares them. lead is the text that comes
\* before Extends, wrap tells whether a layout nests its blocks in an If.
BlockNames == <<"b1", "b2", "b3">>

RECURSIVE BlocksOf(_, _, _, _)
BlocksOf(s, defs, order, i) ==
    IF i > Len(BlockNames) THEN <<>>
    ELSE LET n == BlockNames[IF order = "asc" THEN i ELSE Len(BlockNames) + 1 - i]
         IN  (IF n \in defs THEN <<Block(n, <<Text(ToString(<<n, s>>))>>)>> ELSE <<>>)
             \o BlocksOf(s, defs, order, i + 1)

RECURSIVE WrapEach(_, _)
WrapEach(nodes, i) ==
    IF i > Len(nodes) THEN <<>>
    ELSE <<If(Literal(BoolV(TRUE)), <<nodes[i]>>, <<>>)>> \o WrapEach(nodes, i + 1)

ExtendsTemplate(s, g) ==
    LET bs == BlocksOf(s, g.defs[s], IF s = RootSlug THEN g.order ELSE "asc", 1)
    IN  IF g.parent[s] = "none"
        THEN <<Text(ToString(<<"layout", s>>))>>
             \o (IF g.wrap = "if" THEN WrapEach(bs, 1) ELSE bs)
        ELSE <<Text(g.lead), Extends(g.parent[s]), Text(ToString(<<"child", s>>))>> \o bs

AllBlocks == {BlockNames[i] : i \in 1..Len(BlockNames)}

ParentGraphs ==
    {f \in [Slugs -> Targets] :
        /\ f["1"] # "3"
        /\ f["3"] \in {"none", "1", "3"}
        /\ \A s \in Slugs \ {"1", "2", "3"} : f[s] = "none"}

BlockDefs ==
    {d \in [Slugs -> SUBSET AllBlocks] : \A s \in Slugs \ {"1", "2"} : d[s] = AllBlocks}

ExtendsScenarios ==
    {[family |-> "extends", parent |-> f, defs |-> d, order |-> o, lead |-> " ", wrap |-> "top"]
        : f \in ParentGraphs, d \in BlockDefs, o \in {"asc", "desc"}}
    \cup
    {[family |-> "extends", parent |-> f, defs |-> d, order |-> "asc", lead |-> l, wrap |-> w]
        : f \in {f \in ParentGraphs : f["1"] = "2" /\ f["2"] = "none"},
          d \in {d \in BlockDefs : d["2"] = AllBlocks},
          l \in {" ", "x"}, w \in {"top", "if"}}

\* Dependency graphs: template s writes its name and then refers to the
\* templates of refs[s], in order; wrap says where the referring node
\* stands: an Include or an Extends at the top level, or an Include inside
\* the then-branch or the else-branch of an If, the body of a Range, the
\* body of a Block, or all of these nested.
Cond == Variable(<<".", "Title">>)

RefNode(t, wrap) ==
    CASE wrap = "include" -> Include(t)
      [] wrap = "extends" -> Extends(t)
      [] wrap = "then" -> If(Cond, <<Include(t)>>, <<>>)
      [] wrap = "else" -> If(Cond, <<Text("t")>>, <<Text("e"), Include(t)>>)
      [] wrap = "range" -> Range(Variable(<<".", "One">>), <<Include(t)>>)
      [] wrap = "block" -> Block("b1", <<Extends(t)>>)
      [] wrap = "nested" ->
            If(Cond, <<Range(Variable(<<".", "One">>), <<Block("b1", <<Include(t)>>)>>)>>, <<>>)

Wraps == {"include", "extends", "then", "else", "range", "block", "nested"}

DepsTemplate(s, g) ==
    <<Text(s)>> \o [i \in 1..Len(g.refs[s]) |-> RefNode(g.refs[s][i], g.wrap)]

RefTargets == Slugs \cup {"missing"}

RefLists(n) == UNION {[1..k -> RefTargets] : k \in 0..n}

DepsScenarios ==
    {[family |-> "deps", refs |-> r, wrap |-> w]
        : r \in {f \in [Slugs -> RefLists(2)] :
                    /\ \A s \in {"2", "3"} \cap Slugs : Len(f[s]) <= 1
                    /\ \A s \in Slugs \ {"1", "2", "3"} : f[s] = <<>>},
          w \in Wraps}

\* Constant folding: the root template is an If, alone or followed by an
\* Extends and a Block; its condition is a boolean literal, another
\* literal, a variable that is set or one that is not; its branches hold
\* text, composition nodes, a failing variable and further Ifs. Template 2
\* is a layout with a block.
LitTrue == Literal(BoolV(TRUE))
LitFalse == Literal(BoolV(FALSE))

OptConds == {LitTrue, LitFalse, Literal(IntV(0)), Cond, Variable(<<".", "Nope">>)}

OptLeaves ==
    {Text("a"), Include("2"), Block("b1", <<Text("d")>>), Extends("2"), Variable(<<".", "Nope">>)}

OptBranches ==
    {<<>>}
    \cup {<<x>> : x \in OptLeaves}
    \cup {<<x, Text("z")>> : x \in {Text("a"), Include("2")}}
    \cup {<<If(LitFalse, <<Text("a")>>, <<>>), Text("z")>>,
          <<If(LitTrue, <<Text("a")>>, <<Text("e")>>), Text("z")>>,
          <<If(LitFalse, <<Text("a")>>, <<>>)>>,
          <<If(LitTrue, <<Include("2")>>, <<>>)>>,
          <<If(Cond, <<Text("a")>>, <<If(LitFalse, <<>>, <<Text("e"), Text("z")>>)>>)>>}

OptTails == {<<>>, <<Extends("2"), Block("b1", <<Text("c")>>)>>}

OptScenarios ==
    {[family |-> "opt", cond |-> c, th |-> th, el |-> el, tail |-> tl]
        : c \in OptConds, th \in OptBranches, el \in OptBranches, tl \in OptTails}

OptTemplate(s, g) ==
    CASE s = RootSlug -> <<If(g.cond, g.th, g.el)>> \o g.tail
      [] s = "2" -> <<Text("L"), Block("b1", <<Text("p")>>)>>
      [] OTHER -> <<Text(s)>>

\* Source texts: an If whose condition is true, false, a variable or a
\* number, with and without an else branch and spaces inside the tags; a
\* text followed by a division or a modulo as a statement, as the condition
\* of an If, as the context or as a parameter of an include; pipes; include
\* contexts and parameters that evaluate with and without an error; texts
\* that do not parse.
Open == <<"{", "{">>
Close == <<"}", "}">>
Tag(sp, body) == Open \o sp \o body \o sp \o Close
Dotted(name) == <<".">> \o name
Quoted(chars) == <<"\"">> \o chars \o <<"\"">>
Pads == {<<>>, <<" ">>}

SourceConds ==
    {Spell.true, Spell.false, Dotted(Spell.Title), Dotted(Spell.Nope), <<"1">>, <<"0">>}

IfSource(c, th, el, sp) ==
    Tag(sp, Spell.if \o <<" ">> \o c) \o th
        \o (IF el.has THEN Tag(sp, Spell.else) \o el.text ELSE <<>>)
        \o Tag(sp, Spell.end)

IfSources ==
    {IfSource(c, th, el, sp) :
        c \in SourceConds, th \in {<<"A">>, <<>>},
        el \in {[has |-> FALSE, text |-> <<>>], [has |-> TRUE, text |-> <<"B">>],
                [has |-> TRUE, text |-> <<>>]},
        sp \in Pads}

LeftOperands ==
    {<<"7">>, <<"0">>, <<"2", ".", "5">>, Dotted(<<"N">>), Dotted(<<"F">>),
     Dotted(<<"I">>), Dotted(<<"Q">>), Dotted(Spell.Title)}
RightOperands == {<<"0">>, <<"0", ".", "0">>, <<"2">>, Dotted(<<"Z">>), Dotted(<<"W">>)}
ZeroOperands == RightOperands \ {<<"2">>}
DivOps == {"/", "%"}
Places == {"statement", "condition", "context", "parameter"}

Quotient(l, op, r) == l \o <<" ", op, " ">> \o r

IncludeSource(rest) ==
    Tag(<<>>, Spell.include \o <<" ">> \o Quoted(<<"2">>) \o <<" ">> \o rest)

ArithSource(l, op, r, place) ==
    <<"x">> \o
    CASE place = "statement" -> Tag(<<>>, Quotient(l, op, r))
      [] place = "condition" ->
            Tag(<<>>, Spell.if \o <<" ">> \o Quotient(l, op, r)) \o <<"A">> \o Tag(<<>>, Spell.end)
      [] place = "context" -> IncludeSource(Quotient(l, op, r))
      [] place = "parameter" -> IncludeSource(<<"v", "=", "(">> \o Quotient(l, op, r) \o <<")">>)

ArithSources ==
    {ArithSource(l, op, r, place) :
        l \in LeftOperands, op \in DivOps, r \in RightOperands, place \in Places}

ArithOps == {"+", "-", "*", "/", "%"}
NonZeroOperands == {<<"2">>, <<"2", ".", "5">>}
NumericOperands == LeftOperands \ {Dotted(Spell.Title)}

TypeSources ==
    {ArithSource(l, op, r, "statement") :
        l \in NumericOperands, op \in ArithOps, r \in NonZeroOperands}

PipeSources ==
    {<<"x">> \o Tag(<<>>, v \o <<" ", "|", " ">> \o f) :
        v \in {Dotted(Spell.Title), Dotted(Spell.Nope), Quoted(<<"a">>)},
        f \in {Spell.upper, Spell.true, Spell.upper \o <<"|">> \o Spell.trim}}

IncludeSources ==
    {<<"x">> \o IncludeSource(rest) :
        rest \in {Dotted(Spell.Sub), Dotted(Spell.Nope), Spell.true,
                  <<"v", "=">> \o Dotted(Spell.Title), <<"v", "=">> \o Dotted(Spell.Nope),
                  <<"v", "=">> \o Dotted(Spell.Nope) \o <<" ", "w", "=">> \o Dotted(Spell.Title)}}

BadSources ==
    {<<"x">> \o Tag(<<>>, <<"&">>),
     Tag(<<>>, Spell.if \o <<" ">> \o Dotted(Spell.Title)) \o <<"A">>,
     <<"x">> \o Tag(<<>>, Spell.end),
     <<"x">> \o Open \o <<"\"", "a">>}

\* The chain family: a value piped through filters, v | f1 | ... | fn, and
\* the same filters as nested calls, fn ... f1 v.
MaxFilters == 2
FilterNames == {Spell.upper, Spell.lower, Spell.trim, Spell.len, Spell.true}
ChainValues ==
    {Quoted(<<"a">>), Quoted(<<"B">>), Quoted(<<" ">>), Dotted(Spell.Title),
     Dotted(Spell.Nope), Dotted(<<"N">>)}
FilterChains == UNION {[1..n -> FilterNames] : n \in 1..MaxFilters}

RECURSIVE PipeForm(_, _, _)
PipeForm(v, fs, i) ==
    IF i > Len(fs) THEN v ELSE PipeForm(v \o <<" ", "|", " ">> \o fs[i], fs, i + 1)

RECURSIVE NestedForm(_, _, _)
NestedForm(v, fs, i) ==
    IF i > Len(fs) THEN v ELSE NestedForm(fs[i] \o <<" ">> \o v, fs, i + 1)

ChainScenarios ==
    {[g |-> [family |-> "chain",
             text |-> <<"x">> \o Tag(<<>>, PipeForm(v, fs, 1)),
             nested |-> <<"x">> \o Tag(<<>>, NestedForm(v, fs, 1)),
             filters |-> fs],
      mode |-> "Execute", max |-> MaxDepth] :
        v \in ChainValues, fs \in FilterChains}

\* The lex family: every input of up to MaxPieces pieces, with newlines in
\* the text and in the whitespace inside {{ }}.
MaxPieces == 4
LexPieces == {<<"a">>, <<"\n">>, <<" ">>, <<".">>, Open, Close}

RECURSIVE Flatten(_)
Flatten(ps) == IF Len(ps) = 0 THEN <<>> ELSE Head(ps) \o Flatten(Tail(ps))

LexInputs == {Flatten(ps) : ps \in UNION {[1..n -> LexPieces] : n \in 1..MaxPieces}}

LexScenarios ==
    {[g |-> [family |-> "lex", text |-> t], mode |-> "RenderString", max |-> MaxDepth] :
        t \in LexInputs}

\* The embed family: a pipe chain inside another construct, with the output
\* of the render when the pipe has the value of its initial expression
\* threaded through its filters.
Piped(v, f) == v \o <<" ", "|", " ">> \o f
Grouped(e) == <<"(">> \o e \o <<")">>

EmbedCases ==
    {[place |-> "condition",
      text |-> <<"x">> \o Tag(<<>>, Spell.if \o <<" ">> \o Piped(Dotted(Spell.Title), Spell.upper))
                   \o <<"A">> \o Tag(<<>>, Spell.end),
      expect |-> <<"x", "A">>],
     [place |-> "condition",
      text |-> <<"x">> \o Tag(<<>>, Spell.if \o <<" ">> \o Piped(Quoted(<<" ">>), Spell.trim))
                   \o <<"A">> \o Tag(<<>>, Spell.else) \o <<"B">> \o Tag(<<>>, Spell.end),
      expect |-> <<"x", "B">>],
     [place |-> "grouped",
      text |-> <<"x">> \o Tag(<<>>, <<"1", " ", "+", " ">> \o Grouped(Piped(Quoted(<<"a">>), Spell.len))),
      expect |-> <<"x">> \o Fprint(IntV(2))],
     [place |-> "grouped",
      text |-> <<"x">> \o Tag(<<>>, <<"!">> \o Grouped(Piped(Quoted(<<" ">>), Spell.trim))),
      expect |-> <<"x">> \o Fprint(BoolV(TRUE))],
     [place |-> "argument",
      text |-> <<"x">> \o Tag(<<>>, Spell.upper \o <<" ">> \o Grouped(Piped(Quoted(<<"a">>), Spell.trim))),
      expect |-> <<"x", "A">>],
     [place |-> "context",
      text |-> <<"x">> \o IncludeSource(Piped(Dotted(Spell.Sub), Spell.len)),
      expect |-> <<"x", "i">> \o Fprint(IntV(1))]}

EmbedScenarios ==
    {[g |-> [family |-> "embed", text |-> c.text, place |-> c.place, expect |-> c.expect],
      mode |-> m, max |-> MaxDepth] :
        c \in EmbedCases, m \in {"Execute", "RenderString", "ExecuteWithLoader"}}

\* The lexical family: an expression with a piece the lexer may reject, a
\* lone &, a character outside the language, a string without its closing
\* quote, after a valid start and before more input.
LexicalInputs ==
    {pre \o Open \o start \o bad \o rest :
        pre \in {<<>>, <<"x">>, <<"x", "\n">>},
        start \in {<<>>, <<".">>, <<"a", " ">>, <<" ">>},
        bad \in {<<"&">>, <<"#">>, <<"\"", "b">>, <<"\"", "b", "\n">>, <<"'">>},
        rest \in {<<>>, Close, <<" ", ".">> \o Close, <<"\"">> \o Close, Close \o <<"y">>}}

LexicalScenarios ==
    {[g |-> [family |-> "lexical", text |-> t], mode |-> "RenderString", max |-> MaxDepth] :
        t \in LexicalInputs}

\* The truth family: the root data is the value itself and the template
\* tests it with {{if .}}A{{else}}B{{end}}.
TruthValues ==
    {Nil, BoolV(TRUE), BoolV(FALSE),
     IntV(0), IntV(7), IntV(-3),
     FloatV(0, 1), FloatV(5, 2), FloatV(-1, 2), NaN, PosInf, NegInf,
     StrV(""), StrV("0"), StrV("T"), StrV("false"),
     SeqV(<<>>), SeqV(<<IntV(0)>>), SeqV(<<Nil>>),
     MapV(EmptyMap), MapV([Z |-> IntV(0)]),
     RecV(EmptyMap), RecV([Z |-> IntV(0)])}

TruthSource == IfSource(<<".">>, <<"A">>, [has |-> TRUE, text |-> <<"B">>], <<>>)

TruthScenarios ==
    {[g |-> [family |-> "truth", text |-> TruthSource, val |-> v], mode |-> m, max |-> MaxDepth] :
        v \in TruthValues, m \in {"Execute", "ExecuteWithLoader", "RenderString"}}

SourceData ==
    MapV([Title |-> StrV("T"), Sub |-> MapV([Title |-> StrV("S")]),
          N |-> IntV(-3), F |-> FloatV(5, 2), I |-> PosInf, Q |-> NaN,
          Z |-> IntV(0), W |-> FloatV(0, 1)])

SourceScenarios ==
    {[g |-> [family |-> "source", text |-> t], mode |-> m, max |-> MaxDepth] :
        t \in IfSources, m \in {"Render", "RenderString", "Execute", "ExecuteTemplate"}}
    \cup
    {[g |-> [family |-> "source", text |-> t], mode |-> m, max |-> MaxDepth] :
        t \in ArithSources \cup IncludeSources,
        m \in {"ExecuteWithLoader", "Execute", "ExecuteTemplate", "RenderString"}}
    \cup
    {[g |-> [family |-> "source", text |-> t], mode |-> "Execute", max |-> MaxDepth] :
        t \in TypeSources}
    \cup
    {[g |-> [family |-> "source", text |-> t], mode |-> m, max |-> MaxDepth] :
        t \in PipeSources, m \in {"Execute", "Render"}}
    \cup
    {[g |-> [family |-> "source", text |-> t], mode |-> "RenderString", max |-> MaxDepth] :
        t \in BadSources}

\* The loader of a source scenario: the root template is the parsed text,
\* every other template is the text i{{.}}.
SourceTemplate(s, g) ==
    CASE s = RootSlug -> parseString(g.text).tmpl
      [] OTHER -> parseString(<<"i">> \o Tag(<<>>, <<".">>)).tmpl

ScenarioTemplates(g) ==
    CASE g.family = "graph" -> [s \in Slugs |-> GraphTemplate(s, g)]
      [] g.family \in {"source", "truth", "chain", "lex", "embed", "lexical"} ->
            [s \in Slugs |-> SourceTemplate(s, g)]
      [] g.family = "opt" -> [s \in Slugs |-> OptTemplate(s, g)]
      [] g.family = "deps" -> [s \in Slugs |-> DepsTemplate(s, g)]
      [] g.family = "range" -> [s \in Slugs |-> RangeTemplate(s, g)]
      [] g.family = "extends" -> [s \in Slugs |-> ExtendsTemplate(s, g)]

ScenarioData(g) ==
    IF g.family = "range"
    THEN MapV([Title |-> StrV("T"), Items |-> Items(g.coll)])
    ELSE IF g.family \in {"source", "chain", "lex", "embed", "lexical"} THEN SourceData
    ELSE IF g.family = "truth" THEN g.val
    ELSE Data

Scenarios ==
    {[g |-> g, mode |-> "ExecuteWithLoader", max |-> m] : g \in GraphScenarios, m \in 1..MaxDepth}
    \cup
    {[g |-> g, mode |-> "ExecuteWithLoader", max |-> MaxDepth] : g \in RangeScenarios \cup ExtendsScenarios}
    \cup
    {[g |-> g, mode |-> "Render", max |-> MaxDepth]
        : g \in RangeScenarios
             \cup {g \in GraphScenarios : g.pass = "inherit" /\ g.leaf = "Title"}
             \cup {g \in ExtendsScenarios : g.order = "asc" /\ g.defs["2"] = AllBlocks}}

-----------------------------------------------------------------------------
(* Specification of a render.                                              *)

CompilerIdle ==
    /\ cache = EmptyMap
    /\ mu = NewRWMutex
    /\ procs = [p \in Procs |-> IdleProc]
    /\ calls = 0
    /\ nextId = 1
    /\ returned = NoReturn
    /\ lastOK = EmptyMap
    /\ wiped = {}
    /\ produced = {}
    /\ cleared = 0

InitOf(scenarios) ==
    /\ \E sc \in scenarios :
        /\ templates = ScenarioTemplates(sc.g)
        /\ scn = [g |-> sc.g, mode |-> sc.mode, slug |-> RootSlug,
                 root |-> ScenarioTemplates(sc.g)[RootSlug],
                 source |-> ScenarioTemplates(sc.g)[RootSlug],
                 pass |-> "plain", first |-> [out |-> <<>>, err |-> NoErr]]
        /\ maxIncludeDepth = sc.max
        /\ ctxHeap = <<NewContext(ScenarioData(sc.g))>>
    /\ status = "init"
    /\ stack = <<>>
    /\ output = <<>>
    /\ err = NoErr
    /\ includeStack = <<>>
    /\ blocks = EmptyMap
    /\ ctx = 1
    /\ extTmpl = <<>>
    /\ extDepth = 0
    /\ result = [out |-> <<>>, err |-> NoErr]
    /\ CompilerIdle

Init == InitOf(Scenarios)

Next ==
    \/ ExecuteWithLoader
    \/ Render
    \/ executeWithExtends
    \/ executeText
    \/ executeVariable
    \/ executeIf
    \/ executeRange
    \/ executeRangeSlice
    \/ executeInclude
    \/ executeBlock
    \/ executeExtends
    \/ executeUnsupported
    \/ Return

Spec == Init /\ [][Next]_vars

\* The renders made with ExecuteWithLoader. A render is one sequential
\* call: it keeps running until it returns.
InitLoader == Init /\ scn.mode = "ExecuteWithLoader"

NextLoader ==
    \/ ExecuteWithLoader
    \/ executeWithExtends
    \/ executeText
    \/ executeVariable
    \/ executeIf
    \/ executeRange
    \/ executeRangeSlice
    \/ executeInclude
    \/ executeBlock
    \/ executeExtends
    \/ executeUnsupported
    \/ Return

LiveSpec == InitLoader /\ [][NextLoader]_vars /\ WF_vars(NextLoader)

-----------------------------------------------------------------------------
(* Properties of the include engine.                                       *)

\* The k-th template of the include chain that starts at the root: the
\* root for k = 0, then what each one includes.
RECURSIVE Chain(_, _)
Chain(next, k) ==
    IF k = 0 THEN RootSlug
    ELSE LET p == Chain(next, k - 1)
         IN  IF p \in Slugs THEN next[p] ELSE p

\* The chain never ends: it runs into a cycle.
CyclicChain(next) == \A k \in 0..NumSlugs : Chain(next, k) \in Slugs

\* The number of nested includes made before the include that closes the
\* cycle: that include names a template included earlier in the chain.
ClosingDepth(next) ==
    CHOOSE d \in 0..NumSlugs :
        /\ \E j \in 1..d : Chain(next, j) = Chain(next, d + 1)
        /\ \A e \in 0..(d - 1) : \A j \in 1..e : Chain(next, j) # Chain(next, e + 1)

\* The chain ends at a template that includes nothing, after n includes.
LinearChain(next, n) == Chain(next, n) \in Slugs /\ Chain(next, n + 1) = "none"

\* The run is ExecuteWithLoader on an include graph.
GraphRun == scn.mode = "ExecuteWithLoader" /\ scn.g.family = "graph"
IncludeRun == GraphRun /\ scn.g.shape \in {"one", "two"}

\* C1: a render whose include chain is cyclic terminates, and when the
\* chain up to the include that closes the cycle fits in the depth limit
\* it returns a circular-include error; every render of an include graph
\* terminates.
C1_CircularIncludeRejected ==
    /\ (GraphRun => <>(status = "done"))
    /\ ((IncludeRun /\ CyclicChain(scn.g.next)
            /\ ClosingDepth(scn.g.next) <= maxIncludeDepth)
        => <>(status = "done" /\ result.err.kind = "circular include detected"))

C1_Witness ==
    /\ status = "done" /\ IncludeRun /\ CyclicChain(scn.g.next)
    /\ scn.g.next[RootSlug] = "2" /\ scn.g.next["2"] = RootSlug
    /\ result.err = Err("circular include detected", "2")

\* C2: the include stack never holds more than maxIncludeDepth entries; a
\* linear chain of n nested includes renders without error exactly when
\* n <= maxIncludeDepth, and otherwise fails with the depth error raised
\* by the include number maxIncludeDepth + 1 of the chain.
C2_DepthBoundary ==
    /\ Len(includeStack) <= maxIncludeDepth
    /\ \A n \in 0..NumSlugs :
        (/\ status = "done" /\ GraphRun /\ scn.g.shape = "one"
         /\ scn.g.leaf = "Title" /\ LinearChain(scn.g.next, n))
        => /\ (result.err = NoErr) <=> (n <= maxIncludeDepth)
           /\ (n > maxIncludeDepth =>
                result.err = Err("maximum include depth exceeded",
                                 Chain(scn.g.next, maxIncludeDepth + 1)))

C2_Witness ==
    /\ status = "done" /\ GraphRun /\ scn.g.shape = "one"
    /\ LinearChain(scn.g.next, 2) /\ maxIncludeDepth = 1
    /\ result.err.kind = "maximum include depth exceeded"

\* C3: whenever control is back in the loop of a Range (between two
\* iterations, after the last one, or on the way out with an error), the
\* runtime's Context is the one the Range was entered with and holds
\* exactly the scopes it held then.
C3_RangeRestoresScopes ==
    (Running /\ Top.kind = "range") => <<ctx, CurCtx>> = Top.entry

C3_Witness ==
    /\ Running /\ Top.kind = "range" /\ err # NoErr /\ Top.idx = 1
    /\ Len(stack) > 2 /\ Len(Top.entry[2].scopes) > 0

\* C4: the return of executeInclude leaves the include stack, the current
\* Context and its contents as they were at the call; an include that is
\* rejected or fails to load changes none of them; and two sibling includes
\* of one template are not reported as circular.
C4_IncludeFrame ==
    /\ [][/\ ((Running /\ Top.kind = "seq" /\ Top.ret = "executeInclude"
                /\ Len(stack') < Len(stack))
              => (/\ includeStack' = Top.saved.entryStack
                  /\ ctx' = Top.saved.savedCtx
                  /\ ctxHeap'[ctx'] = Top.saved.entryCtx))
           /\ ((AtNode /\ Node.kind = "Include" /\ err' # NoErr)
              => (/\ includeStack' = includeStack
                  /\ ctx' = ctx
                  /\ ctxHeap' = ctxHeap))]_vars
    /\ [](\A n \in 0..NumSlugs :
            (GraphRun /\ scn.g.shape = "two" /\ LinearChain(scn.g.next, n))
            => err.kind # "circular include detected")

C4_Witness ==
    /\ status = "done" /\ GraphRun /\ scn.g.shape = "two"
    /\ LinearChain(scn.g.next, 2) /\ scn.g.pass = "context" /\ scn.g.leaf = "Missing"
    /\ result.err.kind = "nil value at path"
    /\ includeStack = <<>> /\ ctx = 1

-----------------------------------------------------------------------------
(* Properties of inheritance.                                              *)

\* What a layout with the blocks declared (in ascending order) writes when
\* the names in overridden take the body of template by.
RECURSIVE LayoutOutput(_, _, _, _, _)
LayoutOutput(layout, declared, overridden, by, i) ==
    IF i > Len(BlockNames) THEN <<>>
    ELSE (IF BlockNames[i] \notin declared THEN <<>>
          ELSE IF BlockNames[i] \in overridden THEN <<ToString(<<BlockNames[i], by>>)>>
          ELSE <<ToString(<<BlockNames[i], layout>>)>>)
         \o LayoutOutput(layout, declared, overridden, by, i + 1)

ChildOfLayout ==
    /\ scn.mode = "ExecuteWithLoader" /\ scn.g.family = "extends" /\ scn.g.lead = " " /\ scn.g.wrap = "top"
    /\ scn.g.parent[RootSlug] = "2" /\ scn.g.parent["2"] = "none"

\* C5: a child that extends a layout declaring two blocks and defines one
\* of them renders the layout's text, the child's body for that block and
\* the layout's default for the other, whatever the order of the child's
\* definitions; nothing else of the child is written.
C5_OneOfTwoBlocks ==
    (/\ status = "done" /\ ChildOfLayout
     /\ Cardinality(scn.g.defs["2"]) = 2
     /\ Cardinality(scn.g.defs[RootSlug] \cap scn.g.defs["2"]) = 1)
    => /\ result.err = NoErr
       /\ result.out = <<ToString(<<"layout", "2">>)>>
                       \o LayoutOutput("2", scn.g.defs["2"], scn.g.defs[RootSlug], RootSlug, 1)

C5_Witness ==
    /\ status = "done" /\ ChildOfLayout /\ scn.g.order = "desc"
    /\ scn.g.defs["2"] = {"b1", "b2"} /\ scn.g.defs[RootSlug] = {"b2", "b3"}
    /\ result.out = <<ToString(<<"layout", "2">>), ToString(<<"b1", "2">>), ToString(<<"b2", "1">>)>>

\* C6: a render never runs out of stack in executeWithExtends: a cyclic
\* extends chain is detected and the render returns.
C6_ExtendsCycleDetected == status # "overflow"

-----------------------------------------------------------------------------
(* Properties of the dispatch.                                             *)

\* C7: under ExecuteWithLoader no Include or Block node, wherever it is
\* nested, is rejected as an unsupported node type.
C7_NestedCompositionExecuted ==
    scn.mode = "ExecuteWithLoader" => err.kind # "unsupported node type"

\* C8: Engine.Render executes every node the compiler accepted: a render
\* of a template with include, extends or block directives never fails on
\* an unsupported node type.
C8_RenderExecutesComposition ==
    scn.mode = "Render" => err.kind # "unsupported node type"

-----------------------------------------------------------------------------
(* The compiler under concurrent callers: one action per step of Compile   *)
(* and ClearCache, the lock operations of the cache included.              *)

\* The slugs the callers ask for; "missing" is a slug the loader lacks.
CompileSlugs == {RootSlug, "2", "missing"}

At(p, pc) == procs[p].pc = pc

Goto(p, pc) == [procs EXCEPT ![p].pc = pc]

\* Compile is called: generateCacheKey, then cache.Get.
CompileCall(p, slug) ==
    /\ At(p, "idle")
    /\ calls < MaxCalls
    /\ calls' = calls + 1
    /\ procs' = [procs EXCEPT ![p] =
                    [IdleProc EXCEPT !.pc = "get_rlock", !.op = "Compile",
                                     !.slug = slug, !.cacheKey = generateCacheKey(slug)]]
    /\ UNCHANGED <<cache, mu, nextId, returned, lastOK, wiped, produced, cleared>>

\* CompilationCache.Get: c.mu.RLock()
GetRLock(p) ==
    /\ At(p, "get_rlock")
    /\ CanRLock(mu)
    /\ mu' = RLock(mu)
    /\ procs' = Goto(p, "get_read")
    /\ UNCHANGED <<cache, calls, nextId, returned, lastOK, wiped, produced, cleared>>

\* CompilationCache.Get: tmpl, ok := c.templates[key]
GetRead(p) ==
    /\ At(p, "get_read")
    /\ LET r == CacheGet(cache, procs[p].cacheKey)
           slug == procs[p].slug
       IN  procs' = [procs EXCEPT ![p].pc = "get_runlock",
                                  ![p].cached = r.tmpl,
                                  ![p].ok = r.ok,
                                  ![p].warm = slug \in DOMAIN lastOK,
                                  ![p].seen = IF slug \in DOMAIN lastOK
                                              THEN lastOK[slug].tmpl ELSE NoArtifact,
                                  ![p].cold = slug \in wiped]
    /\ UNCHANGED <<cache, mu, calls, nextId, returned, lastOK, wiped, produced, cleared>>

\* CompilationCache.Get: the deferred c.mu.RUnlock(); Compile then returns
\* the cached artifact on a hit and goes on to load on a miss.
GetRUnlock(p) ==
    /\ At(p, "get_runlock")
    /\ mu' = RUnlock(mu)
    /\ IF procs[p].ok
       THEN /\ procs' = [procs EXCEPT ![p] = IdleProc]
            /\ returned' = ReturnOf(procs[p], procs[p].cached, NoErr)
       ELSE /\ procs' = Goto(p, "build")
            /\ UNCHANGED returned
    /\ UNCHANGED <<cache, calls, nextId, lastOK, wiped, produced, cleared>>

\* Compile after a miss: loader.Load, resolveDependencies, Optimize and the
\* new CompiledTemplate; an error of the first two is returned.
CompileBuild(p) ==
    /\ At(p, "build")
    /\ LET slug == procs[p].slug
           tmpl == Load(slug)
           deps == resolveDependencies(tmpl.tmpl)
           compiled == CompiledTemplate(Optimize(tmpl.tmpl), deps.deps,
                                        procs[p].cacheKey, nextId)
       IN  IF tmpl.err # NoErr
           THEN /\ procs' = [procs EXCEPT ![p] = IdleProc]
                /\ returned' = ReturnOf([procs[p] EXCEPT !.loaded = <<slug>>],
                                        NoArtifact, Wrap("failed to load template", slug, tmpl.err))
                /\ UNCHANGED <<nextId, produced>>
           ELSE IF deps.err # NoErr
           THEN /\ procs' = [procs EXCEPT ![p] = IdleProc]
                /\ returned' = ReturnOf([procs[p] EXCEPT !.loaded = <<slug>> \o deps.loaded,
                                                         !.checked = deps.checked],
                                        NoArtifact, Wrap("failed to resolve dependencies", slug, deps.err))
                /\ UNCHANGED <<nextId, produced>>
           ELSE /\ procs' = [procs EXCEPT ![p].pc = "set_lock",
                                          ![p].compiled = compiled,
                                          ![p].loaded = <<slug>> \o deps.loaded,
                                          ![p].checked = deps.checked]
                /\ nextId' = nextId + 1
                /\ produced' = produced \cup {<<slug, compiled>>}
                /\ UNCHANGED returned
    /\ UNCHANGED <<cache, mu, calls, lastOK, wiped, cleared>>

\* CompilationCache.Set: c.mu.Lock()
SetLock(p) ==
    /\ At(p, "set_lock")
    /\ CanLock(mu)
    /\ mu' = Lock(mu)
    /\ procs' = Goto(p, "set_write")
    /\ UNCHANGED <<cache, calls, nextId, returned, lastOK, wiped, produced, cleared>>

\* CompilationCache.Set: c.templates[key] = tmpl
SetWrite(p) ==
    /\ At(p, "set_write")
    /\ cache' = CacheSet(cache, procs[p].cacheKey, procs[p].compiled)
    /\ lastOK' = [s \in DOMAIN lastOK \cup {procs[p].slug} |->
                    IF s = procs[p].slug
                    THEN [tmpl |-> procs[p].compiled, cold |-> procs[p].cold]
                    ELSE lastOK[s]]
    /\ wiped' = wiped \ {procs[p].slug}
    /\ procs' = Goto(p, "set_unlock")
    /\ UNCHANGED <<mu, calls, nextId, returned, produced, cleared>>

\* CompilationCache.Set: the deferred c.mu.Unlock(); Compile then returns
\* the artifact it built.
SetUnlock(p) ==
    /\ At(p, "set_unlock")
    /\ mu' = Unlock(mu)
    /\ procs' = [procs EXCEPT ![p] = IdleProc]
    /\ returned' = ReturnOf(procs[p], procs[p].compiled, NoErr)
    /\ UNCHANGED <<cache, calls, nextId, lastOK, wiped, produced, cleared>>

\* ClearCache is called: cache.Clear.
ClearCacheCall(p) ==
    /\ At(p, "idle")
    /\ calls < MaxCalls
    /\ calls' = calls + 1
    /\ procs' = [procs EXCEPT ![p] =
                    [IdleProc EXCEPT !.pc = "clear_lock", !.op = "ClearCache",
                                     !.mark = nextId]]
    /\ UNCHANGED <<cache, mu, nextId, returned, lastOK, wiped, produced, cleared>>

\* CompilationCache.Clear: c.mu.Lock()
ClearLock(p) ==
    /\ At(p, "clear_lock")
    /\ CanLock(mu)
    /\ mu' = Lock(mu)
    /\ procs' = Goto(p, "clear_write")
    /\ UNCHANGED <<cache, calls, nextId, returned, lastOK, wiped, produced, cleared>>

\* CompilationCache.Clear: c.templates = make(map[string]*CompiledTemplate)
ClearWrite(p) ==
    /\ At(p, "clear_write")
    /\ cache' = CacheClear(cache)
    /\ wiped' = wiped \cup DOMAIN lastOK
    /\ lastOK' = EmptyMap
    /\ procs' = Goto(p, "clear_unlock")
    /\ UNCHANGED <<mu, calls, nextId, returned, produced, cleared>>

\* CompilationCache.Clear: the deferred c.mu.Unlock(); ClearCache returns.
ClearUnlock(p) ==
    /\ At(p, "clear_unlock")
    /\ mu' = Unlock(mu)
    /\ procs' = [procs EXCEPT ![p] = IdleProc]
    /\ returned' = ReturnOf(procs[p], NoArtifact, NoErr)
    /\ cleared' = IF procs[p].mark > cleared THEN procs[p].mark ELSE cleared
    /\ UNCHANGED <<cache, calls, nextId, lastOK, wiped, produced>>

\* The template sets the callers compile: slug 1 includes slug 2 inside an
\* If, and slug 2 includes nothing or slug 1; or slug 1 includes a template
\* the loader lacks. The other slugs include nothing.
CompileScenarios ==
    {[g |-> g, mode |-> "Compile", max |-> MaxDepth]
        : g \in {h \in GraphScenarios :
                    /\ h.pass = "inherit" /\ h.leaf = "Title"
                    /\ \A s \in Slugs \ {RootSlug, "2"} : h.next[s] = "none"
                    /\ \/ h.shape = "if" /\ h.next["2"] \in {"none", RootSlug}
                       \/ /\ h.shape = "one"
                          /\ h.next[RootSlug] = "missing" /\ h.next["2"] = "none"}}

InitCompile == InitOf(CompileScenarios)

NextCompile ==
    /\ \E p \in Procs :
        \/ \E slug \in CompileSlugs : CompileCall(p, slug)
        \/ GetRLock(p)
        \/ GetRead(p)
        \/ GetRUnlock(p)
        \/ CompileBuild(p)
        \/ SetLock(p)
        \/ SetWrite(p)
        \/ SetUnlock(p)
        \/ ClearCacheCall(p)
        \/ ClearLock(p)
        \/ ClearWrite(p)
        \/ ClearUnlock(p)
    /\ UNCHANGED <<scn, templates, rvars>>

SpecCompile == InitCompile /\ [][NextCompile]_vars

-----------------------------------------------------------------------------
(* Properties of the compilation cache.                                    *)

\* The caller has read the cache in its current Compile call.
HasRead(p) == procs[p].op = "Compile" /\ procs[p].pc \notin {"get_rlock", "get_read"}

\* C9: a Compile(slug) that reads the cache after a Compile(slug) has
\* stored its artifact, with no ClearCache since, hits, returns that very
\* artifact and calls neither Loader.Load nor Loader.Exists; a
\* Compile(slug) that reads the cache after ClearCache removed the slug's
\* artifact misses, loads the slug through the loader and returns an
\* artifact it built itself.
C9_CacheHitUntilClear ==
    /\ \A p \in Procs :
        /\ (HasRead(p) /\ procs[p].warm) => (procs[p].ok /\ procs[p].cached = procs[p].seen)
        /\ (HasRead(p) /\ procs[p].cold) => ~procs[p].ok
    /\ (returned.op = "Compile" /\ returned.warm) =>
            /\ returned.err = NoErr
            /\ returned.ret = returned.seen
            /\ returned.loaded = <<>>
            /\ returned.checked = <<>>
    /\ (returned.op = "Compile" /\ returned.cold) =>
            /\ returned.err = NoErr
            /\ returned.loaded # <<>>
            /\ Head(returned.loaded) = returned.slug
            /\ <<returned.slug, returned.ret>> \in produced
            /\ \A a \in {b[2] : b \in produced} \ {returned.ret} : a.id # returned.ret.id

\* A Compile has just returned from the cache the artifact that a Compile
\* of the same slug built and stored after a ClearCache had removed the
\* slug's earlier artifact.
C9_Witness ==
    /\ returned.op = "Compile" /\ returned.warm
    /\ returned.ret # NoArtifact
    /\ returned.slug \in DOMAIN lastOK
    /\ lastOK[returned.slug].cold
    /\ lastOK[returned.slug].tmpl = returned.ret
    /\ \E b \in produced : b[1] = returned.slug /\ b[2].id < returned.ret.id

\* The callers inside the read and the write sections of the cache.
Readers == {p \in Procs : procs[p].pc \in {"get_read", "get_runlock"}}
Writers == {p \in Procs : procs[p].pc \in {"set_write", "set_unlock", "clear_write", "clear_unlock"}}

\* The artifact a Compile of the slug builds, whatever its identity.
Complete(a, slug) ==
    /\ slug \in DOMAIN templates
    /\ DOMAIN a = DOMAIN CompiledTemplate(<<>>, <<>>, <<>>, 0)
    /\ a.AST = Optimize(templates[slug])
    /\ a.Dependencies = resolveDependencies(templates[slug]).deps
    /\ a.IsOptimized

\* C10: under every interleaving of Compile calls, a writer of the cache
\* excludes every other writer and every reader; a Compile that returns
\* without error returns a complete artifact built for its own slug; every
\* cache entry is a complete artifact built for the slug of its key; and
\* when no call is in progress the cache holds, for every slug stored
\* since the last clear, the artifact written last, and nothing else.
C10_ConcurrentCompile ==
    /\ Cardinality(Writers) <= 1
    /\ Writers # {} => Readers = {}
    /\ (returned.op = "Compile" /\ returned.err = NoErr) =>
            /\ Complete(returned.ret, returned.slug)
            /\ <<returned.slug, returned.ret>> \in produced
    /\ \A k \in DOMAIN cache :
        /\ Len(k) = 2
        /\ Complete(cache[k], k[1])
        /\ <<k[1], cache[k]>> \in produced
    /\ (\A p \in Procs : procs[p].pc = "idle") =>
            /\ \A s \in DOMAIN lastOK :
                    /\ generateCacheKey(s) \in DOMAIN cache
                    /\ cache[generateCacheKey(s)] = lastOK[s].tmpl
            /\ Cardinality(DOMAIN cache) = Cardinality(DOMAIN lastOK)

\* Two callers missed the same slug and each built and stored an artifact;
\* the one that built first stored and returned last, no call is in
\* progress, and the cache holds its artifact.
C10_Witness ==
    /\ \A p \in Procs : procs[p].pc = "idle"
    /\ returned.op = "Compile" /\ ~returned.ok /\ returned.err = NoErr
    /\ ~returned.cold /\ wiped = {}
    /\ \E b \in produced : b[1] = returned.slug /\ b[2].id > returned.ret.id
    /\ cache[generateCacheKey(returned.slug)] = returned.ret
    /\ lastOK[returned.slug].tmpl = returned.ret

-----------------------------------------------------------------------------
(* The compiler called by one caller, on dependency graphs.                *)

\* The number of compiler calls the single caller makes.
MaxRetries == 2

\* CompileWithoutCache: resolveDependencies, Optimize and the new
\* CompiledTemplate with an empty cache key; the cache is not touched.
CompileWithoutCache(p, slug) ==
    /\ At(p, "idle")
    /\ calls < MaxCalls
    /\ calls' = calls + 1
    /\ LET tmpl == templates[slug]
           deps == resolveDependencies(tmpl)
           q == [IdleProc EXCEPT !.op = "CompileWithoutCache", !.slug = slug,
                                 !.loaded = deps.loaded, !.checked = deps.checked]
       IN  IF deps.err # NoErr
           THEN /\ returned' = ReturnOf(q, NoArtifact,
                                        Wrap("failed to resolve dependencies", "", deps.err))
                /\ UNCHANGED nextId
           ELSE /\ returned' = ReturnOf(q, CompiledTemplate(Optimize(tmpl), deps.deps, <<>>, nextId),
                                        NoErr)
                /\ nextId' = nextId + 1
    /\ UNCHANGED <<cache, mu, procs, lastOK, wiped, produced, cleared>>

ResolveScenarios == {[g |-> g, mode |-> "Compile", max |-> MaxDepth] : g \in DepsScenarios}

InitResolve == InitOf(ResolveScenarios)

NextResolve ==
    /\ \/ calls < MaxRetries /\ CompileCall(1, RootSlug)
       \/ calls < MaxRetries /\ CompileWithoutCache(1, RootSlug)
       \/ GetRLock(1)
       \/ GetRead(1)
       \/ GetRUnlock(1)
       \/ CompileBuild(1)
       \/ SetLock(1)
       \/ SetWrite(1)
       \/ SetUnlock(1)
    /\ UNCHANGED <<scn, templates, rvars>>

SpecResolve == InitResolve /\ [][NextResolve]_vars

-----------------------------------------------------------------------------
(* Properties of dependency resolution.                                    *)

Elems(seq) == {seq[i] : i \in DOMAIN seq}

RefsOf(refs, t) == IF t \in DOMAIN refs THEN refs[t] ELSE <<>>

\* The names reachable from the names of S along the references.
RECURSIVE Closure(_, _)
Closure(refs, S) ==
    LET T == S \cup UNION {Elems(RefsOf(refs, t)) : t \in S}
    IN  IF T = S THEN S ELSE Closure(refs, T)

ReachSet(refs) == Closure(refs, Elems(refs[RootSlug]))

\* The names in the order a depth-first walk from the root discovers them.
RECURSIVE Discover(_, _, _)
Discover(refs, todo, found) ==
    IF todo = <<>> THEN found
    ELSE IF Head(todo) \in Elems(found) THEN Discover(refs, Tail(todo), found)
    ELSE Discover(refs, RefsOf(refs, Head(todo)) \o Tail(todo), Append(found, Head(todo)))

DepsRun == scn.mode = "Compile" /\ scn.g.family = "deps"

MissingReachable == DepsRun /\ "missing" \in ReachSet(scn.g.refs)

\* Some template that the root reaches, or the root, reaches itself.
CyclicDeps ==
    /\ DepsRun
    /\ \E t \in (ReachSet(scn.g.refs) \cup {RootSlug}) \cap Slugs :
            t \in Closure(scn.g.refs, Elems(scn.g.refs[t]))

\* C11: when the root template reaches, through Include and Extends nodes
\* at any nesting, a template the loader lacks, every Compile and
\* CompileWithoutCache of it returns no artifact and an error that names
\* the missing template; nothing is built or stored for the slug, the cache
\* stays as it was, and each Compile loads the slug again.
C11_MissingDependencyFails ==
    MissingReachable =>
        /\ cache = EmptyMap
        /\ produced = {}
        /\ \A p \in Procs : procs[p].pc \notin {"set_lock", "set_write", "set_unlock"}
        /\ returned.op # "none" =>
                /\ returned.ret = NoArtifact
                /\ returned.err.kind = "failed to resolve dependencies"
                /\ returned.err.cause = Err("template not found", "missing")
                /\ returned.op = "Compile" =>
                        /\ ~returned.ok
                        /\ returned.loaded # <<>>
                        /\ Head(returned.loaded) = RootSlug

\* The second Compile of a root that reaches the missing template only
\* through another template, by nested nodes, has failed like the first.
C11_Witness ==
    /\ MissingReachable
    /\ scn.g.wrap = "nested"
    /\ "missing" \notin Elems(scn.g.refs[RootSlug])
    /\ calls = MaxRetries
    /\ returned.op = "Compile" /\ returned.err # NoErr
    /\ \A p \in Procs : procs[p].pc = "idle"

\* C12: the dependency list of a successful compilation holds exactly the
\* names reachable from the root through Include and Extends nodes at any
\* nesting, each once, in the order a depth-first walk discovers them.
C12_DependencyList ==
    (DepsRun /\ returned.op # "none" /\ returned.err = NoErr) =>
        LET deps == returned.ret.Dependencies
        IN  /\ Elems(deps) = ReachSet(scn.g.refs)
            /\ \A i, j \in DOMAIN deps : deps[i] = deps[j] => i = j
            /\ deps = Discover(scn.g.refs, scn.g.refs[RootSlug], <<>>)

\* A compilation returned three dependencies found inside Range bodies, in
\* an order that differs from the breadth-first one.
C12_Witness ==
    /\ DepsRun /\ scn.g.wrap = "range"
    /\ scn.g.refs[RootSlug] = <<"2", "3">>
    /\ returned.op = "Compile" /\ returned.err = NoErr
    /\ returned.ret.Dependencies = <<"2", "1", "3">>

\* C13: a Compile or CompileWithoutCache of a root whose Include/Extends
\* graph has a cycle returns an error.
C13_CompilerRejectsCycles ==
    (CyclicDeps /\ returned.op # "none") => returned.err # NoErr

-----------------------------------------------------------------------------
(* The optimizer: a template is executed, then optimized and executed      *)
(* again on a new runtime and a new context.                               *)

ExecuteOptimized_InPlace ==
    /\ status = "done"
    /\ scn.mode = "ExecuteWithLoader"
    /\ scn.pass = "plain"
    /\ scn' = [scn EXCEPT !.root = Optimize(scn.root), !.pass = "optimized", !.first = result]
    /\ templates' = [templates EXCEPT ![scn.slug] = Optimize(scn.root)]
    /\ status' = "init"
    /\ stack' = <<>>
    /\ output' = <<>>
    /\ err' = NoErr
    /\ includeStack' = <<>>
    /\ blocks' = EmptyMap
    /\ ctxHeap' = <<NewContext(ScenarioData(scn.g))>>
    /\ ctx' = 1
    /\ extTmpl' = <<>>
    /\ extDepth' = 0
    /\ result' = [out |-> <<>>, err |-> NoErr]
    /\ UNCHANGED <<maxIncludeDepth, cvars>>

\* Optimizer.Optimize on the template just executed, then ExecuteWithLoader
\* again: NewCompositionRuntime on a new Context of the same data.
ExecuteOptimized ==
    /\ status = "done"
    /\ scn.mode = "ExecuteWithLoader"
    /\ scn.pass = "plain"
    /\ scn' = [scn EXCEPT !.root = Optimize(scn.root), !.pass = "optimized", !.first = result]
    /\ status' = "init"
    /\ stack' = <<>>
    /\ output' = <<>>
    /\ err' = NoErr
    /\ includeStack' = <<>>
    /\ blocks' = EmptyMap
    /\ ctxHeap' = <<NewContext(ScenarioData(scn.g))>>
    /\ ctx' = 1
    /\ extTmpl' = <<>>
    /\ extDepth' = 0
    /\ result' = [out |-> <<>>, err |-> NoErr]
    /\ UNCHANGED <<maxIncludeDepth, templates, cvars>>

InitOptimize ==
    InitOf({[g |-> g, mode |-> "ExecuteWithLoader", max |-> MaxDepth] : g \in OptScenarios})

NextOptimize ==
    \/ ExecuteWithLoader
    \/ executeWithExtends
    \/ executeText
    \/ executeVariable
    \/ executeIf
    \/ executeInclude
    \/ executeBlock
    \/ executeExtends
    \/ executeUnsupported
    \/ Return
    \/ ExecuteOptimized

SpecOptimize == InitOptimize /\ [][NextOptimize]_vars

-----------------------------------------------------------------------------
(* Properties of the optimizer.                                            *)

\* The text, variable, include and extends nodes under the nodes, in
\* order. AllLeaves takes every branch; LiveLeaves leaves out the branch
\* that a boolean literal condition rules out.
RECURSIVE AllLeaves(_, _)
AllLeaves(nodes, i) ==
    IF i > Len(nodes) THEN <<>>
    ELSE LET n == nodes[i]
             here == CASE n.kind = "If" -> AllLeaves(n.Then, 1) \o AllLeaves(n.Else, 1)
                       [] n.kind \in {"Range", "Block"} -> AllLeaves(n.Body, 1)
                       [] OTHER -> <<n>>
         IN  here \o AllLeaves(nodes, i + 1)

RECURSIVE LiveLeaves(_, _)
LiveLeaves(nodes, i) ==
    IF i > Len(nodes) THEN <<>>
    ELSE LET n == nodes[i]
             here == CASE n.kind = "If" /\ n.Condition = LitTrue -> LiveLeaves(n.Then, 1)
                       [] n.kind = "If" /\ n.Condition = LitFalse -> LiveLeaves(n.Else, 1)
                       [] n.kind = "If" /\ n.Condition \notin {LitTrue, LitFalse} ->
                            LiveLeaves(n.Then, 1) \o LiveLeaves(n.Else, 1)
                       [] n.kind \in {"Range", "Block"} -> LiveLeaves(n.Body, 1)
                       [] OTHER -> <<n>>
         IN  here \o LiveLeaves(nodes, i + 1)

\* The run has optimized its root template.
Optimized == scn.g.family = "opt" /\ scn.pass = "optimized"

\* C14: the optimized template, executed with ExecuteWithLoader, returns
\* what the template itself returned: the same text, or an error when the
\* template returned an error.
C14_OptimizePreservesResult ==
    (Optimized /\ status = "done") =>
        IF scn.first.err = NoErr
        THEN result.err = NoErr /\ result.out = scn.first.out
        ELSE result.err # NoErr

\* C15: optimizing an optimized template changes nothing.
C15_OptimizeIdempotent ==
    Optimized => Optimize(scn.root) = scn.root

\* C16: Optimize puts in the place of an If with a literal true condition
\* its optimized then-branch (the optimized node itself when the branch
\* has one node, else an If that holds the optimized then nodes and no
\* else nodes), in the place of an If with a literal false condition its
\* optimized else-branch likewise, or nothing when the If has no else
\* nodes; an If with another condition keeps its condition and both
\* optimized branches; the nodes after the If stay; and the result holds
\* the leaves of the live branches and no others.
C16_ConstantFolding ==
    Optimized =>
        LET n == scn.source[1]
            rest == SubSeq(scn.source, 2, Len(scn.source))
            taken == IF n.Condition = LitTrue THEN n.Then ELSE n.Else
            folded ==
                IF n.Condition \in {LitTrue, LitFalse}
                THEN IF Len(taken) = 0 /\ n.Condition = LitFalse THEN <<>>
                     ELSE IF Len(taken) = 1 THEN Optimize(taken)
                     ELSE <<[kind |-> "If",
                             Condition |-> n.Condition,
                             Then |-> IF n.Condition = LitTrue THEN Optimize(taken) ELSE <<>>,
                             Else |-> IF n.Condition = LitTrue THEN <<>> ELSE Optimize(taken)]>>
                ELSE <<[kind |-> "If", Condition |-> n.Condition,
                        Then |-> Optimize(n.Then), Else |-> Optimize(n.Else)]>>
        IN  /\ scn.root = folded \o rest
            /\ AllLeaves(scn.root, 1) = LiveLeaves(scn.source, 1)

\* An If with a literal true condition, two then nodes of which the first
\* is itself folded away, and an else-branch has been optimized.
C16_Witness ==
    /\ Optimized
    /\ scn.source[1].Condition = LitTrue
    /\ scn.source[1].Then = <<If(LitFalse, <<Text("a")>>, <<>>), Text("z")>>
    /\ scn.source[1].Else = <<Text("a"), Text("z")>>
    /\ scn.root[1] = If(LitTrue, <<Text("z")>>, <<>>)

-----------------------------------------------------------------------------
(* Specification of the renders of a source text: the text is tokenized    *)
(* and parsed, then rendered by Engine.Render, Engine.RenderString,        *)
(* Execute, Runtime.ExecuteTemplate or ExecuteWithLoader.                  *)

InitSource ==
    InitOf(SourceScenarios \cup TruthScenarios \cup ChainScenarios \cup LexScenarios
           \cup EmbedScenarios \cup LexicalScenarios)

\* The caller's second render of a chain scenario: Execute of the template
\* parsed from the nested-call form, on a new Runtime and a new Context.
ExecuteNested ==
    /\ status = "done"
    /\ scn.g.family = "chain"
    /\ scn.pass = "plain"
    /\ scn' = [scn EXCEPT !.root = parseString(scn.g.nested).tmpl,
                          !.pass = "nested", !.first = result]
    /\ status' = "init"
    /\ stack' = <<>>
    /\ output' = <<>>
    /\ err' = NoErr
    /\ includeStack' = <<>>
    /\ blocks' = EmptyMap
    /\ ctxHeap' = <<NewContext(ScenarioData(scn.g))>>
    /\ ctx' = 1
    /\ extTmpl' = <<>>
    /\ extDepth' = 0
    /\ result' = [out |-> <<>>, err |-> NoErr]
    /\ UNCHANGED <<maxIncludeDepth, templates, cvars>>

NextSource ==
    \/ Render
    \/ RenderString
    \/ Execute
    \/ ExecuteNested
    \/ ExecuteWithLoader
    \/ executeText
    \/ executeVariable
    \/ executeOperator
    \/ executePipe
    \/ executeIf
    \/ executeInclude
    \/ executeUnsupported
    \/ Return

SpecSource == InitSource /\ [][NextSource]_vars

SourceRun(modes) == scn.g.family = "source" /\ scn.mode \in modes /\ status = "done"

TrueElseSource ==
    IfSource(Spell.true, <<"A">>, [has |-> TRUE, text |-> <<"B">>], <<>>)
FalseSource ==
    IfSource(Spell.false, <<"A">>, [has |-> FALSE, text |-> <<>>], <<>>)

\* C17: rendered by Engine.Render from its source text,
\* {{if true}}A{{else}}B{{end}} parses without an error to an If whose
\* condition is a boolean literal and renders A without an error, and
\* {{if false}}A{{end}} compiles to no node and renders the empty string
\* without an error.
C17_SourceConstantFolding ==
    SourceRun({"Render"}) =>
        /\ (scn.g.text = TrueElseSource =>
                /\ parseString(scn.g.text).err = NoErr
                /\ isConstantBool(parseString(scn.g.text).tmpl[1].Condition)
                /\ result = [out |-> <<"A">>, err |-> NoErr])
        /\ (scn.g.text = FalseSource =>
                /\ parseString(scn.g.text).err = NoErr
                /\ Optimize(parseString(scn.g.text).tmpl) = <<>>
                /\ result = [out |-> <<>>, err |-> NoErr])

\* The expressions a statement of the root template evaluates in the root
\* context, and whether one of them raises an error.
RootContext == NewContext(SourceData)
Raises(expr) == evaluateExpression(RootContext, expr).err # NoErr

ExpressionsOf(n) ==
    CASE n.kind \in {"Variable", "Literal", "Call", "BinaryOp", "UnaryOp", "Index"} -> {n}
      [] n.kind = "Pipe" -> {n.Value}
      [] n.kind = "If" -> {n.Condition}
      [] n.kind = "Range" -> {n.Collection}
      [] n.kind = "Include" ->
            IF n.Context # NoNode THEN {n.Context} ELSE {n.Params[k] : k \in DOMAIN n.Params}
      [] OTHER -> {}

\* The statements of the root template that the render reaches before any
\* statement other than a text has run.
FirstStatements(nodes) ==
    {i \in 1..Len(nodes) : \A j \in 1..(i - 1) : nodes[j].kind = "Text"}

RaisedInRoot ==
    \E i \in FirstStatements(scn.root) : \E e \in ExpressionsOf(scn.root[i]) : Raises(e)

AllModes == {"Render", "RenderString", "Execute", "ExecuteTemplate", "ExecuteWithLoader"}

\* C18: a render in which the evaluation of an expression raises an error,
\* the context expression and the parameter expressions of an include
\* among them, returns an error to its caller.
C18_EvaluationErrorsPropagate ==
    (SourceRun(AllModes) /\ RaisedInRoot) => result.err # NoErr

\* C19: a render that fails after text has been written to the output
\* buffer hands none of that text to its caller: Execute, ExecuteWithLoader,
\* Engine.Render and Engine.RenderString return the empty string, and so
\* does Runtime.Output after a failed Runtime.ExecuteTemplate.
C19_NoPartialOutput ==
    (SourceRun(AllModes) /\ result.err # NoErr /\ output # <<>>) => result.out = <<>>

ZeroDivisionSources(places) ==
    {ArithSource(l, op, r, place) :
        l \in NumericOperands, op \in DivOps, r \in ZeroOperands, place \in places}

\* C20: for every numeric left operand, integer or float, the evaluation of
\* a division or of a modulo whose right operand is the integer 0 or the
\* float 0.0 returns an error, and the render that evaluates it fails.
C20_DivisionByZeroFails ==
    (SourceRun(AllModes) /\ scn.g.text \in ZeroDivisionSources(Places)) =>
        (RaisedInRoot /\ result.err # NoErr)

\* The type of the value of an expression in the root context of a source
\* scenario.
TypeOf(expr) == evaluateExpression(RootContext, expr).val.t

\* C21: for every arithmetic operator of + - * / % and a right operand
\* that is not zero, the operation succeeds, with a value of integer type
\* when both operands are integers and of floating-point type when at least
\* one operand is floating-point.
C21_ArithmeticResultTypes ==
    (SourceRun({"Execute"}) /\ scn.g.text \in TypeSources) =>
        LET n == scn.root[2]
            v == evaluateExpression(RootContext, n)
        IN  /\ v.err = NoErr
            /\ result.err = NoErr
            /\ v.val.t = IF TypeOf(n.Left) = "int" /\ TypeOf(n.Right) = "int"
                         THEN "int" ELSE "float"

\* The values the truthiness table names as false: null, the boolean
\* false, the integer and the float zero, the empty string, the empty
\* sequence and the empty mapping.
InFalsyTable(v) ==
    \/ v.t = "nil"
    \/ v.t = "bool" /\ v.v = FALSE
    \/ v.t = "int" /\ v.v = 0
    \/ v.t = "float" /\ v.v = <<0, 1>>
    \/ v.t = "str" /\ v.v = ""
    \/ v.t = "seq" /\ v.v = <<>>
    \/ v.t = "map" /\ DOMAIN v.v = {}

TruthRun == scn.g.family = "truth" /\ status = "done"

\* C22: IsTruthy is false exactly for null, the boolean false, an integer
\* or float zero, the empty string and an empty sequence or mapping, and
\* true for every other value, the string "0" and an opaque record among
\* them: {{if .}}A{{else}}B{{end}} renders B for the former and A for the
\* latter.
C22_TruthinessTable ==
    TruthRun =>
        /\ IsTruthy(scn.g.val) = ~InFalsyTable(scn.g.val)
        /\ result = [out |-> IF InFalsyTable(scn.g.val) THEN <<"B">> ELSE <<"A">>,
                     err |-> NoErr]

C22_Witness ==
    /\ TruthRun
    /\ scn.g.val = StrV("0")
    /\ result.out = <<"A">>

NestedRun == scn.g.family = "chain" /\ scn.pass = "nested" /\ status = "done"

\* C23: the pipe chain v | f1 | ... | fn and the nested calls fn ... f1 v
\* both parse; the pipe is a Pipe of the value with the filters in their
\* written order; the two renders either both fail or both succeed with the
\* same output.
C23_PipeEqualsNestedCalls ==
    NestedRun =>
        /\ parseString(scn.g.text).err = NoErr
        /\ parseString(scn.g.nested).err = NoErr
        /\ scn.source[2].kind = "Pipe"
        /\ scn.source[2].Filters = [i \in DOMAIN scn.g.filters |-> String(scn.g.filters[i])]
        /\ scn.root[2].kind = "Call"
        /\ (scn.first.err = NoErr) = (result.err = NoErr)
        /\ scn.first.out = result.out

\* Both forms succeed and the order of the filters decides the output:
\* "a" | upper | lower is a, not A.
C23_Witness ==
    /\ NestedRun
    /\ scn.g.filters = <<Spell.upper, Spell.lower>>
    /\ result = [out |-> <<"x", "a">>, err |-> NoErr]
    /\ scn.first = result

\* A filter fails and the later filter, an unknown function, is not called:
\* both forms fail with the error of the first.
C23_WitnessError ==
    /\ NestedRun
    /\ scn.g.filters = <<Spell.len, Spell.true>>
    /\ result.err # NoErr
    /\ scn.first.err.kind = "filter error" /\ scn.first.err.arg = "len"

\* The line and the column of the character at offset p of the input: 1
\* plus the newlines before it, and 1 plus the characters between the last
\* newline before it (or the start of the input) and it.
NewlinesBefore(input, p) == {q \in 1..(p - 1) : input[q] = "\n"}
LineAt(input, p) == 1 + Cardinality(NewlinesBefore(input, p))
ColumnAt(input, p) ==
    IF NewlinesBefore(input, p) = {} THEN p
    ELSE p - (CHOOSE q \in NewlinesBefore(input, p) :
                \A o \in NewlinesBefore(input, p) : o <= q)

LexRun == scn.g.family = "lex" /\ status = "done"

\* C24: every token the lexer emits carries the line and the column of its
\* first character, also when newlines occur in the whitespace inside
\* {{ }}.
C24_TokenPositions ==
    LexRun =>
        \A k \in DOMAIN All(scn.g.text) :
            LET r == All(scn.g.text)[k]
            IN  /\ r.tok.Line = LineAt(scn.g.text, r.l.start)
                /\ r.tok.Column = ColumnAt(scn.g.text, r.l.start)

\* The pipe chains of a node and of the expressions below it.
RECURSIVE PipesIn(_)
PipesIn(n) ==
    CASE n.kind = "Pipe" -> {n}
      [] n.kind = "BinaryOp" -> PipesIn(n.Left) \cup PipesIn(n.Right)
      [] n.kind = "UnaryOp" -> PipesIn(n.Operand)
      [] n.kind = "Call" -> UNION {PipesIn(n.Args[k]) : k \in DOMAIN n.Args}
      [] n.kind = "If" -> PipesIn(n.Condition)
      [] n.kind = "Include" -> IF n.Context # NoNode THEN PipesIn(n.Context) ELSE {}
      [] OTHER -> {}

EmbedRun(modes) == scn.g.family = "embed" /\ scn.mode \in modes /\ status = "done"

\* C25: a pipe chain that the parser returns as an If condition, as a
\* parenthesized sub-expression, as a function argument or as an include
\* context is evaluated, to the value of its initial expression threaded
\* through its filters: the template parses with the pipe inside the
\* construct and the render succeeds with the output of that value.
C25_PipeIsAnExpression ==
    (\/ EmbedRun({"Execute", "RenderString"}) /\ scn.g.place # "context"
     \/ EmbedRun({"ExecuteWithLoader"}) /\ scn.g.place = "context") =>
        /\ parseString(scn.g.text).err = NoErr
        /\ PipesIn(scn.source[2]) # {}
        /\ result = [out |-> scn.g.expect, err |-> NoErr]

LexicalRun ==
    /\ scn.g.family = "lexical" /\ status = "done"
    /\ FirstError(scn.g.text).err

\* C26: when the lexer reports an error in the input, Parse returns no
\* template and an error that carries the line and the column, counted
\* from 1, of the token at which the lexical error occurred.
C26_LexerErrorPosition ==
    LexicalRun =>
        LET e == FirstError(scn.g.text)
        IN  /\ parseString(scn.g.text).tmpl = <<>>
            /\ result.out = <<>>
            /\ result.err.kind = "failed to parse template string"
            /\ result.err.cause.line = LineAt(scn.g.text, e.l.start)
            /\ result.err.cause.column = ColumnAt(scn.g.text, e.l.start)

\* Chained inheritance: template 1 extends 2, 2 extends 3, and 3 is the
\* layout that declares every block.
ChainOfThree ==
    /\ scn.mode = "ExecuteWithLoader" /\ scn.g.family = "extends"
    /\ scn.g.lead = " " /\ scn.g.wrap = "top"
    /\ scn.g.parent[RootSlug] = "2" /\ scn.g.parent["2"] = "3" /\ scn.g.parent["3"] = "none"

\* What the layout writes when every block takes the body of the
\* most-derived template that defines it.
RECURSIVE MostDerivedOutput(_)
MostDerivedOutput(i) ==
    IF i > Len(BlockNames) THEN <<>>
    ELSE <<ToString(<<BlockNames[i],
                      IF BlockNames[i] \in scn.g.defs[RootSlug] THEN RootSlug
                      ELSE IF BlockNames[i] \in scn.g.defs["2"] THEN "2"
                      ELSE "3">>)>>
         \o MostDerivedOutput(i + 1)

\* C27: in chained inheritance the grandparent's block renders the body of
\* the child when the child defines it (also when the parent defines it
\* too), the body of the parent when only the parent defines it, and its
\* own default body when neither does.
C27_ChainedInheritance ==
    (status = "done" /\ ChainOfThree) =>
        /\ result.err = NoErr
        /\ result.out = <<ToString(<<"layout", "3">>)>> \o MostDerivedOutput(1)

\* C28: once a ClearCache has returned, the cache holds no artifact that a
\* Compile built from a load done before that ClearCache was called.
C28_NoStaleArtifactAfterClear ==
    \A k \in DOMAIN cache : cache[k].id >= cleared

NoDuplicate(seq) == \A i, j \in DOMAIN seq : seq[i] = seq[j] => i = j

\* The templates whose bodies the compilation that returned last walked,
\* in the order of the walks: the root, then every template that
\* resolveTemplateDep loaded.
Traversed ==
    IF returned.op = "Compile"
    THEN returned.loaded
    ELSE <<returned.slug>> \o returned.loaded

\* C29: every compilation returns, also when templates include or extend
\* each other cyclically or themselves, and within it each template name is
\* checked for existence at most once and loaded at most once, and no
\* template body is walked more than once.
C29_EachTemplateOnce ==
    (DepsRun /\ returned.op # "none") =>
        /\ NoDuplicate(returned.checked)
        /\ NoDuplicate(returned.loaded)
        /\ NoDuplicate(Traversed)

\* The CompiledTemplates that the cache holds, that a Compile has built and
\* that the last compiler call returned.
ArtifactsHeld ==
    {cache[k] : k \in DOMAIN cache}
    \cup {pa[2] : pa \in produced}
    \cup (IF returned.ret.id # 0 THEN {returned.ret} ELSE {})

\* The artifact's nodes are those Optimize made of the parsed template of
\* its slug.
AsProduced(a) ==
    \E s \in Slugs :
        /\ a.CacheKey \in {generateCacheKey(s), <<>>}
        /\ a.AST = Optimize(ScenarioTemplates(scn.g)[s])

=============================================================================
